---- MODULE Spec2Model ----
(***************************************************************************)
(* A model of the bcsv-jmap crate: the name hash and its reverse index     *)
(* (hash.rs), the field and value model (field.rs), the rows (entry.rs),   *)
(* the table container (jmap.rs) and the binary codec (io.rs).             *)
(*                                                                         *)
(* Representation.  A byte is a number in 0..255.  A 32-bit word (u32) is  *)
(* a tuple <<b1, b2, b3, b4>> of bytes, most significant first: TLC's      *)
(* integers stop at 2^31 - 1, so a u32 is never held as one number.  An    *)
(* i32 is an Integer.  A name is the sequence of its UTF-8 bytes, a text   *)
(* value is the sequence of its code points.                               *)
(***************************************************************************)
EXTENDS Integers, Sequences, FiniteSets, TLC

VARIABLES
    lookup,      \* FileHashTable.lookup: hash -> name               (hash.rs:86)
    fields,      \* JMapInfo.fields: IndexMap<u32, Field>, in order  (jmap.rs:19)
    entries,     \* JMapInfo.entries: Vec<Entry>                     (jmap.rs:21)
    entry_size,  \* JMapInfo.entry_size                              (jmap.rs:23)
    last,        \* the last call made and what it returned
    added,       \* the names passed to FileHashTable::add by its caller, in call order
    buffer,      \* the result of the last to_buffer call, if kept
    loaded       \* the result of the last from_buffer call, if kept

vars == <<lookup, fields, entries, entry_size, last, added, buffer, loaded>>

(***************************************************************************)
(* Bytes and 32-bit words                                                  *)
(***************************************************************************)
Pow2(k) ==
    <<1, 2, 4, 8, 16, 32, 64, 128, 256, 512, 1024, 2048, 4096, 8192, 16384,
      32768, 65536, 131072, 262144, 524288, 1048576, 2097152, 4194304,
      8388608, 16777216, 33554432, 67108864, 134217728, 268435456,
      536870912, 1073741824>>[k + 1]

Bit(v, k) == (v \div Pow2(k)) % 2

\* x & y on bytes
BAnd(x, y) ==
      Bit(x, 0) * Bit(y, 0)       + 2 * Bit(x, 1) * Bit(y, 1)
    + 4 * Bit(x, 2) * Bit(y, 2)   + 8 * Bit(x, 3) * Bit(y, 3)
    + 16 * Bit(x, 4) * Bit(y, 4)  + 32 * Bit(x, 5) * Bit(y, 5)
    + 64 * Bit(x, 6) * Bit(y, 6)  + 128 * Bit(x, 7) * Bit(y, 7)

\* x | y on bytes
BOr(x, y) == x + y - BAnd(x, y)

Bytes == 0..255

WZero == <<0, 0, 0, 0>>
WOnes == <<255, 255, 255, 255>>

IsWord(w) == /\ Len(w) = 4
             /\ \A i \in 1..4 : w[i] \in Bytes

\* a & b, a | b, !a on u32
WAnd(a, b) == [i \in 1..4 |-> BAnd(a[i], b[i])]
WOr(a, b)  == [i \in 1..4 |-> BOr(a[i], b[i])]
WNot(a)    == [i \in 1..4 |-> 255 - a[i]]

Hi16(w) == w[1] * 256 + w[2]
Lo16(w) == w[3] * 256 + w[4]
MkWord(hi, lo) == <<hi \div 256, hi % 256, lo \div 256, lo % 256>>

\* u32::wrapping_mul by a small factor (m < 2^15) and u32::wrapping_add
WMulSmall(w, m) ==
    LET lo == Lo16(w) * m
        hi == Hi16(w) * m + (lo \div 65536)
    IN  MkWord(hi % 65536, lo % 65536)

WAdd(a, b) ==
    LET lo == Lo16(a) + Lo16(b)
        hi == Hi16(a) + Hi16(b) + (lo \div 65536)
    IN  MkWord(hi % 65536, lo % 65536)

\* bit i (0 = least significant) of a u32
WBit(w, i) == Bit(w[4 - (i \div 8)], i % 8)

\* the u32 whose bit i is f[i]
WFromBits(f) ==
    [j \in 1..4 |->
        LET b == (4 - j) * 8
        IN  f[b] + 2 * f[b + 1] + 4 * f[b + 2] + 8 * f[b + 3] + 16 * f[b + 4]
            + 32 * f[b + 5] + 64 * f[b + 6] + 128 * f[b + 7]]

\* w << s and w >> s on u32, for 0 <= s < 32
WShl(w, s) ==
    IF s = 0 THEN w
    ELSE WFromBits([i \in 0..31 |-> IF i >= s THEN WBit(w, i - s) ELSE 0])

WShr(w, s) ==
    IF s = 0 THEN w
    ELSE WFromBits([i \in 0..31 |-> IF i + s <= 31 THEN WBit(w, i + s) ELSE 0])

\* v as u32, for an i32 v
I32ToWord(v) ==
    IF v >= 0 THEN MkWord(v \div 65536, v % 65536)
    ELSE LET u == (v + 2147483647) + 1      \* v + 2^31, in 0 .. 2^31 - 1
         IN  MkWord((u \div 65536) + 32768, u % 65536)

\* w as i32, for a u32 w
WordToI32(w) ==
    IF w[1] < 128 THEN Hi16(w) * 65536 + Lo16(w)
    ELSE (((Hi16(w) - 32768) * 65536 + Lo16(w)) - 2147483647) - 1

\* n as the u32 it is, for 0 <= n < 2^31
NatToWord(n) == MkWord(n \div 65536, n % 65536)

(***************************************************************************)
(* hash.rs: the name hash                                                  *)
(***************************************************************************)
\* `ch as u32`: byte as i8 as i32 when bit 7 is set, byte as i32 otherwise
ByteAsU32(byte) ==
    IF BAnd(byte, 128) # 0 THEN <<255, 255, 255, byte>> ELSE <<0, 0, 0, byte>>

\* the same without the sign extension
ByteAsU32_unsigned(byte) == <<0, 0, 0, byte>>

RECURSIVE calc_hash_from(_, _, _)
calc_hash_from(field_name, i, hash) ==
    IF i > Len(field_name) THEN hash
    ELSE calc_hash_from(field_name, i + 1,
                        WAdd(WMulSmall(hash, 31), ByteAsU32(field_name[i])))

RECURSIVE calc_hash_unsigned_from(_, _, _)
calc_hash_unsigned_from(field_name, i, hash) ==
    IF i > Len(field_name) THEN hash
    ELSE calc_hash_unsigned_from(field_name, i + 1,
                        WAdd(WMulSmall(hash, 31), ByteAsU32_unsigned(field_name[i])))

\* a calc_hash that adds each byte as an unsigned value
calc_hash_unsigned(field_name) == calc_hash_unsigned_from(field_name, 1, WZero)

calc_hash(field_name) == calc_hash_from(field_name, 1, WZero)

\* the names the calls are made with
nAa         == <<65, 97>>                                      \* "Aa"
nBB         == <<66, 66>>                                      \* "BB": the hash of "Aa"
nC          == <<67>>                                          \* "C"
nE          == <<195, 169>>                                    \* "e" with an acute accent
nScenarioNo == <<83, 99, 101, 110, 97, 114, 105, 111, 78, 111>>
nZoneName   == <<90, 111, 110, 101, 78, 97, 109, 101>>

HashNames == {nAa, nBB, nC, nE, nScenarioNo, nZoneName}
Names     == {nAa, nBB, nC, nE}

\* calc_hash on each of these names, computed once
HashOfName == [n \in HashNames |-> calc_hash(n)]

\* HashAlgorithm::calc and FileHashTable::calc
calc(field_name) ==
    IF field_name \in HashNames THEN HashOfName[field_name] ELSE calc_hash(field_name)

(***************************************************************************)
(* hash.rs: the reverse index.  csv.rs: a column name given as a hash      *)
(***************************************************************************)
\* one digit of {:X}, and of {:x}
HexDigitUpper(d) == IF d < 10 THEN 48 + d ELSE 55 + d
HexDigitLower(d) == IF d < 10 THEN 48 + d ELSE 87 + d

\* format!("[{:08x}]", hash): lower-case digits
FormatHash_lower(hash) ==
    <<91>> \o
    <<HexDigitLower(hash[1] \div 16), HexDigitLower(hash[1] % 16),
      HexDigitLower(hash[2] \div 16), HexDigitLower(hash[2] % 16),
      HexDigitLower(hash[3] \div 16), HexDigitLower(hash[3] % 16),
      HexDigitLower(hash[4] \div 16), HexDigitLower(hash[4] % 16)>>
    \o <<93>>

\* format!("[{:08X}]", hash)
FormatHash(hash) ==
    <<91>> \o
    <<HexDigitUpper(hash[1] \div 16), HexDigitUpper(hash[1] % 16),
      HexDigitUpper(hash[2] \div 16), HexDigitUpper(hash[2] % 16),
      HexDigitUpper(hash[3] \div 16), HexDigitUpper(hash[3] % 16),
      HexDigitUpper(hash[4] \div 16), HexDigitUpper(hash[4] % 16)>>
    \o <<93>>

\* FileHashTable::find
find(lk, hash) == IF hash \in DOMAIN lk THEN lk[hash] ELSE FormatHash(hash)

\* a map with one more key
MapPut(m, k, v) == [x \in DOMAIN m \cup {k} |-> IF x = k THEN v ELSE m[x]]

\* an add that rebinds a hash already present (HashMap::insert)
add_overwrite(lk, field_name) == MapPut(lk, calc(field_name), field_name)

\* FileHashTable::add: the reverse index after the call (the call returns calc)
add(lk, field_name) ==
    LET hash == calc(field_name)
    IN  IF hash \in DOMAIN lk THEN lk ELSE MapPut(lk, hash, field_name)

\* char::to_digit(16) on an ASCII byte: -1 when it is no hex digit
HexValue(c) ==
    IF c >= 48 /\ c <= 57 THEN c - 48
    ELSE IF c >= 65 /\ c <= 70 THEN c - 55
    ELSE IF c >= 97 /\ c <= 102 THEN c - 87
    ELSE -1

\* u32::from_str_radix(s, 16): [ok, val]; an optional leading '+', then at
\* least one digit, an error on any other byte and on overflow
RECURSIVE from_str_radix16_from(_, _, _)
from_str_radix16_from(s, i, acc) ==
    IF i > Len(s) THEN [ok |-> TRUE, val |-> acc]
    ELSE IF HexValue(s[i]) < 0 \/ acc[1] >= 16
         THEN [ok |-> FALSE, val |-> WZero]
         ELSE from_str_radix16_from(s, i + 1,
                  WAdd(WMulSmall(acc, 16), NatToWord(HexValue(s[i]))))

from_str_radix16(s) ==
    LET digits == IF Len(s) > 0 /\ s[1] = 43 THEN Tail(s) ELSE s
    IN  IF Len(digits) = 0 THEN [ok |-> FALSE, val |-> WZero]
        ELSE from_str_radix16_from(digits, 1, WZero)

\* from_csv's reading of a column name: [bracketed, ok, hash].  bracketed is
\* whether the name starts with '[' and ends with ']'
ParseColumnHash(field_name) ==
    IF Len(field_name) >= 2 /\ field_name[1] = 91 /\ field_name[Len(field_name)] = 93
    THEN LET r == from_str_radix16(SubSeq(field_name, 2, Len(field_name) - 1))
         IN  [bracketed |-> TRUE, ok |-> r.ok, hash |-> r.val]
    ELSE [bracketed |-> FALSE, ok |-> FALSE, hash |-> WZero]

(***************************************************************************)
(* field.rs: field types and values                                        *)
(***************************************************************************)
FieldTypes == {"Long", "String", "Float", "UnsignedLong", "Short", "Char", "StringOffset"}

\* FieldType::size
size(field_type) ==
    CASE field_type = "Long"         -> 4
      [] field_type = "String"       -> 32
      [] field_type = "Float"        -> 4
      [] field_type = "UnsignedLong" -> 4
      [] field_type = "Short"        -> 2
      [] field_type = "Char"         -> 1
      [] field_type = "StringOffset" -> 4

\* FieldType::default_mask
default_mask(field_type) ==
    CASE field_type = "Long"         -> WOnes
      [] field_type = "String"       -> WZero
      [] field_type = "Float"        -> WOnes
      [] field_type = "UnsignedLong" -> WOnes
      [] field_type = "Short"        -> <<0, 0, 255, 255>>
      [] field_type = "Char"         -> <<0, 0, 0, 255>>
      [] field_type = "StringOffset" -> WOnes

\* FieldType::order
order(field_type) ==
    CASE field_type = "String"       -> 0
      [] field_type = "Float"        -> 1
      [] field_type = "Long"         -> 2
      [] field_type = "UnsignedLong" -> 3
      [] field_type = "Short"        -> 4
      [] field_type = "Char"         -> 5
      [] field_type = "StringOffset" -> 6

\* `field_type as u8`: the discriminants of the enum
raw_type(field_type) ==
    CASE field_type = "Long"         -> 0
      [] field_type = "String"       -> 1
      [] field_type = "Float"        -> 2
      [] field_type = "UnsignedLong" -> 3
      [] field_type = "Short"        -> 4
      [] field_type = "Char"         -> 5
      [] field_type = "StringOffset" -> 6

\* a from_raw that looks at the low three bits only
from_raw_low_bits(value) ==
    CASE value % 8 = 0 -> [ok |-> TRUE, field_type |-> "Long"]
      [] value % 8 = 1 -> [ok |-> TRUE, field_type |-> "String"]
      [] value % 8 = 2 -> [ok |-> TRUE, field_type |-> "Float"]
      [] value % 8 = 3 -> [ok |-> TRUE, field_type |-> "UnsignedLong"]
      [] value % 8 = 4 -> [ok |-> TRUE, field_type |-> "Short"]
      [] value % 8 = 5 -> [ok |-> TRUE, field_type |-> "Char"]
      [] value % 8 = 6 -> [ok |-> TRUE, field_type |-> "StringOffset"]
      [] OTHER         -> [ok |-> FALSE, field_type |-> "None"]

\* FieldType::from_raw: [ok, field_type]
from_raw(value) ==
    CASE value = 0 -> [ok |-> TRUE, field_type |-> "Long"]
      [] value = 1 -> [ok |-> TRUE, field_type |-> "String"]
      [] value = 2 -> [ok |-> TRUE, field_type |-> "Float"]
      [] value = 3 -> [ok |-> TRUE, field_type |-> "UnsignedLong"]
      [] value = 4 -> [ok |-> TRUE, field_type |-> "Short"]
      [] value = 5 -> [ok |-> TRUE, field_type |-> "Char"]
      [] value = 6 -> [ok |-> TRUE, field_type |-> "StringOffset"]
      [] OTHER     -> [ok |-> FALSE, field_type |-> "None"]

\* FieldValue: Int(i32), Float(f32, held as its 32 bits), String(text)
IntValue(v)   == [k |-> "Int", v |-> v]
FloatValue(w) == [k |-> "Float", v |-> w]
StrValue(s)   == [k |-> "String", v |-> s]

\* FieldValue::default_for
default_for(field_type) ==
    IF field_type \in {"Long", "UnsignedLong", "Short", "Char"} THEN IntValue(0)
    ELSE IF field_type = "Float" THEN FloatValue(WZero)
    ELSE StrValue(<<>>)

\* a compatibility check that lets an Int back a Float field
is_compatible_with_lax(value, field_type) ==
    \/ value.k = "Int" /\ field_type \in {"Long", "UnsignedLong", "Short", "Char", "Float"}
    \/ value.k = "Float" /\ field_type = "Float"
    \/ value.k = "String" /\ field_type \in {"String", "StringOffset"}

\* FieldValue::is_compatible_with
is_compatible_with(value, field_type) ==
    \/ value.k = "Int" /\ field_type \in {"Long", "UnsignedLong", "Short", "Char"}
    \/ value.k = "Float" /\ field_type = "Float"
    \/ value.k = "String" /\ field_type \in {"String", "StringOffset"}

\* Field::with_default
with_default(hash, field_type, default) ==
    [hash |-> hash, mask |-> default_mask(field_type), offset |-> 0,
     field_type |-> field_type, shift |-> 0, default |-> default]

(***************************************************************************)
(* IndexMap<u32, Field> as the sequence of its values, and HashMap as a    *)
(* function                                                                *)
(***************************************************************************)
Keys(fs) == {fs[i].hash : i \in 1..Len(fs)}

contains_key(fs, hash) == hash \in Keys(fs)

IndexOf(fs, hash) == CHOOSE i \in 1..Len(fs) : fs[i].hash = hash

\* IndexMap::get
GetField(fs, hash) == fs[IndexOf(fs, hash)]

\* IndexMap::insert: a present key keeps its place and takes the new value
IndexMapInsert(fs, hash, field) ==
    IF contains_key(fs, hash)
    THEN [fs EXCEPT ![IndexOf(fs, hash)] = field]
    ELSE Append(fs, field)

\* IndexMap::shift_remove: the elements after the removed one move up
shift_remove(fs, hash) ==
    LET i == IndexOf(fs, hash)
    IN  SubSeq(fs, 1, i - 1) \o SubSeq(fs, i + 1, Len(fs))

\* IndexMap::swap_remove: the last element takes the place of the removed one
swap_remove(fs, hash) ==
    LET i == IndexOf(fs, hash)
        n == Len(fs)
    IN  IF i = n THEN SubSeq(fs, 1, n - 1)
        ELSE [j \in 1..(n - 1) |-> IF j = i THEN fs[n] ELSE fs[j]]

\* HashMap::remove
MapRemove(m, k) == [x \in DOMAIN m \ {k} |-> m[x]]

\* Entry::set_by_hash
set_by_hash(entry, hash, value) == MapPut(entry, hash, value)

EmptyMap == [x \in {} |-> 0]

(***************************************************************************)
(* jmap.rs: the container.  Each operation is given as the container state *)
(* and the result it leaves: [status, lookup, fields, entries]             *)
(***************************************************************************)
\* a create_field that registers the name before it checks the default
create_field_add_first(lk, fs, es, name, field_type, default) ==
    LET hash == calc(name)
        lk2  == add(lk, name)
    IN  IF ~is_compatible_with(default, field_type)
        THEN [status |-> "TypeMismatch", lookup |-> lk2, fields |-> fs, entries |-> es]
        ELSE IF contains_key(fs, hash)
        THEN [status |-> "FieldAlreadyExists", lookup |-> lk2, fields |-> fs, entries |-> es]
        ELSE [status |-> "Ok", lookup |-> lk2,
              fields |-> IndexMapInsert(fs, hash, with_default(hash, field_type, default)),
              entries |-> [i \in 1..Len(es) |-> set_by_hash(es[i], hash, default)]]

\* a create_field that does not touch the existing rows
create_field_no_backfill(lk, fs, es, name, field_type, default) ==
    LET hash == calc(name)
        lk2  == add(lk, name)
    IN  IF ~is_compatible_with(default, field_type)
        THEN [status |-> "TypeMismatch", lookup |-> lk, fields |-> fs, entries |-> es]
        ELSE IF contains_key(fs, hash)
        THEN [status |-> "FieldAlreadyExists", lookup |-> lk2, fields |-> fs, entries |-> es]
        ELSE [status |-> "Ok", lookup |-> lk2,
              fields |-> IndexMapInsert(fs, hash, with_default(hash, field_type, default)),
              entries |-> es]

\* JMapInfo::create_field
create_field(lk, fs, es, name, field_type, default) ==
    LET hash == calc(name)
        lk2  == add(lk, name)
    IN  IF ~is_compatible_with(default, field_type)
        THEN [status |-> "TypeMismatch", lookup |-> lk, fields |-> fs, entries |-> es]
        ELSE IF contains_key(fs, hash)
        THEN [status |-> "FieldAlreadyExists", lookup |-> lk2, fields |-> fs, entries |-> es]
        ELSE [status |-> "Ok", lookup |-> lk2,
              fields |-> IndexMapInsert(fs, hash, with_default(hash, field_type, default)),
              entries |-> [i \in 1..Len(es) |-> set_by_hash(es[i], hash, default)]]

\* a drop_field that removes with shift_remove
drop_field_shift(fs, es, name) ==
    LET hash == calc(name)
    IN  IF ~contains_key(fs, hash)
        THEN [status |-> "FieldNotFound", fields |-> fs, entries |-> es]
        ELSE [status |-> "Ok", fields |-> shift_remove(fs, hash),
              entries |-> [i \in 1..Len(es) |-> MapRemove(es[i], hash)]]

\* a drop_field that leaves the rows alone
drop_field_keep_rows(fs, es, name) ==
    LET hash == calc(name)
    IN  IF ~contains_key(fs, hash)
        THEN [status |-> "FieldNotFound", fields |-> fs, entries |-> es]
        ELSE [status |-> "Ok", fields |-> swap_remove(fs, hash), entries |-> es]

\* JMapInfo::drop_field
drop_field(fs, es, name) ==
    LET hash == calc(name)
    IN  IF ~contains_key(fs, hash)
        THEN [status |-> "FieldNotFound", fields |-> fs, entries |-> es]
        ELSE [status |-> "Ok", fields |-> swap_remove(fs, hash),
              entries |-> [i \in 1..Len(es) |-> MapRemove(es[i], hash)]]

\* the row create_entry builds: every declared field's default
RECURSIVE DefaultEntryFrom(_, _, _)
DefaultEntryFrom(fs, i, entry) ==
    IF i > Len(fs) THEN entry
    ELSE DefaultEntryFrom(fs, i + 1, set_by_hash(entry, fs[i].hash, fs[i].default))

\* a create_entry that fills the row with the defaults of the types
create_entry_type_defaults(fs, es) ==
    Append(es, [h \in Keys(fs) |-> default_for(GetField(fs, h).field_type)])

\* JMapInfo::create_entry: the entries after the call
create_entry(fs, es) == Append(es, DefaultEntryFrom(fs, 1, EmptyMap))

\* a remove_entry that takes the last entry
remove_entry_last(es, index) ==
    IF index >= Len(es)
    THEN [status |-> "EntryIndexOutOfBounds", index |-> index, len |-> Len(es),
          entries |-> es]
    ELSE [status |-> "Ok", index |-> index, len |-> Len(es),
          entries |-> SubSeq(es, 1, Len(es) - 1)]

\* JMapInfo::remove_entry, for a 0-based index
remove_entry(es, index) ==
    IF index >= Len(es)
    THEN [status |-> "EntryIndexOutOfBounds", index |-> index, len |-> Len(es),
          entries |-> es]
    ELSE [status |-> "Ok", index |-> index, len |-> Len(es),
          entries |-> SubSeq(es, 1, index) \o SubSeq(es, index + 2, Len(es))]

\* the stable sort of a field sequence on the layout rank: the positions of
\* fs in sorted order
RankBefore(fs, i, j) ==
    \/ order(fs[i].field_type) < order(fs[j].field_type)
    \/ order(fs[i].field_type) = order(fs[j].field_type) /\ i < j

\* the directory order, unsorted
SortedPositions_unsorted(fs) == [p \in 1..Len(fs) |-> p]

SortedPositions(fs) ==
    [p \in 1..Len(fs) |->
        CHOOSE i \in 1..Len(fs) :
            Cardinality({j \in 1..Len(fs) : RankBefore(fs, j, i)}) = p - 1]

\* ((n + 3) & !3)
AlignUp4(n) == ((n + 3) \div 4) * 4

\* the loop of recalculate_offsets over the sorted working copy: position p
\* of the sorted order takes the running offset, which grows by the width
RECURSIVE AssignOffsets(_, _, _, _)
AssignOffsets(fs, sorted, p, current_offset) ==
    IF p > Len(sorted) THEN [fields |-> fs, current_offset |-> current_offset]
    ELSE AssignOffsets([fs EXCEPT ![sorted[p]].offset = current_offset],
                       sorted, p + 1,
                       current_offset + size(fs[sorted[p]].field_type))

\* JMapInfo::recalculate_offsets: [fields, entry_size]
recalculate_offsets(fs) ==
    LET r == AssignOffsets(fs, SortedPositions(fs), 1, 0)
    IN  [fields |-> r.fields, entry_size |-> AlignUp4(r.current_offset)]

(***************************************************************************)
(* io.rs: text encodings.  A text is a sequence of code points.  Of the    *)
(* JIS X 0208 table only the row of U+3042 is held: the texts of this      *)
(* model use no other double-byte character, and none starts with a byte   *)
(* order mark.                                                             *)
(***************************************************************************)
Utf8Encode1(c) ==
    IF c < 128 THEN <<c>>
    ELSE IF c < 2048 THEN <<192 + (c \div 64), 128 + (c % 64)>>
    ELSE <<224 + (c \div 4096), 128 + ((c \div 64) % 64), 128 + (c % 64)>>

\* the decimal digits of n > 0, as ASCII
RECURSIVE DecimalDigits(_)
DecimalDigits(n) ==
    IF n < 10 THEN <<48 + n>> ELSE DecimalDigits(n \div 10) \o <<48 + (n % 10)>>

\* encoding_rs SHIFT_JIS encoder on one code point; an unmappable one
\* becomes the numeric character reference &#N;
SjisEncode1(c) ==
    IF c < 128 THEN <<c>>
    ELSE IF c = 165 THEN <<92>>
    ELSE IF c = 8254 THEN <<126>>
    ELSE IF c >= 65377 /\ c <= 65439 THEN <<c - 65377 + 161>>
    ELSE IF c = 12354 THEN <<130, 160>>
    ELSE <<38, 35>> \o DecimalDigits(c) \o <<59>>

RECURSIVE EncodeFrom(_, _, _)
EncodeFrom(s, i, encoding) ==
    IF i > Len(s) THEN <<>>
    ELSE (IF encoding = "Utf8" THEN Utf8Encode1(s[i]) ELSE SjisEncode1(s[i]))
         \o EncodeFrom(s, i + 1, encoding)

\* encode_string: it has no error case
encode_string(s, encoding) == EncodeFrom(s, 1, encoding)

IsCont(bytes, i) == i <= Len(bytes) /\ bytes[i] >= 128 /\ bytes[i] <= 191

\* String::from_utf8: [ok, text]
RECURSIVE Utf8DecodeFrom(_, _, _)
Utf8DecodeFrom(bytes, i, acc) ==
    IF i > Len(bytes) THEN [ok |-> TRUE, text |-> acc]
    ELSE LET b == bytes[i]
         IN  IF b < 128 THEN Utf8DecodeFrom(bytes, i + 1, Append(acc, b))
             ELSE IF b >= 194 /\ b <= 223 /\ IsCont(bytes, i + 1)
             THEN Utf8DecodeFrom(bytes, i + 2,
                                 Append(acc, (b - 192) * 64 + (bytes[i + 1] - 128)))
             ELSE IF /\ b >= 224 /\ b <= 239
                     /\ IsCont(bytes, i + 1) /\ IsCont(bytes, i + 2)
                     /\ (b = 224 => bytes[i + 1] >= 160)
                     /\ (b = 237 => bytes[i + 1] <= 159)
             THEN Utf8DecodeFrom(bytes, i + 3,
                                 Append(acc, (b - 224) * 4096 + (bytes[i + 1] - 128) * 64
                                             + (bytes[i + 2] - 128)))
             ELSE [ok |-> FALSE, text |-> <<>>]

\* encoding_rs SHIFT_JIS decoder: [text, had_errors]; a malformed
\* sequence becomes U+FFFD
RECURSIVE SjisDecodeFrom(_, _, _, _)
SjisDecodeFrom(bytes, i, acc, had_errors) ==
    IF i > Len(bytes) THEN [text |-> acc, had_errors |-> had_errors]
    ELSE LET b == bytes[i]
         IN  IF b <= 128 THEN SjisDecodeFrom(bytes, i + 1, Append(acc, b), had_errors)
             ELSE IF b >= 161 /\ b <= 223
             THEN SjisDecodeFrom(bytes, i + 1, Append(acc, 65377 + (b - 161)), had_errors)
             ELSE IF b = 130 /\ i + 1 <= Len(bytes) /\ bytes[i + 1] = 160
             THEN SjisDecodeFrom(bytes, i + 2, Append(acc, 12354), had_errors)
             ELSE IF /\ ((b >= 129 /\ b <= 159) \/ (b >= 224 /\ b <= 252))
                     /\ i + 1 <= Len(bytes) /\ bytes[i + 1] >= 128
             THEN SjisDecodeFrom(bytes, i + 2, Append(acc, 65533), TRUE)
             ELSE SjisDecodeFrom(bytes, i + 1, Append(acc, 65533), TRUE)

\* decode_string: [ok, text]; the Shift-JIS branch drops had_errors
decode_string(bytes, encoding) ==
    IF encoding = "Utf8" THEN Utf8DecodeFrom(bytes, 1, <<>>)
    ELSE [ok |-> TRUE, text |-> SjisDecodeFrom(bytes, 1, <<>>, FALSE).text]

(***************************************************************************)
(* io.rs: byte buffers.  Offsets are the code's, from 0; data[off + 1] is  *)
(* the byte at offset off.                                                 *)
(***************************************************************************)
\* data[a..b] is in range
InRange(data, a, b) == a <= b /\ b <= Len(data)

Slice(data, a, b) == SubSeq(data, a + 1, b)

Reverse4(w) == <<w[4], w[3], w[2], w[1]>>

\* BigEndian::read_u32 / LittleEndian::read_u32 at offset off
read_u32(data, off, big_endian) ==
    IF big_endian THEN Slice(data, off, off + 4) ELSE Reverse4(Slice(data, off, off + 4))

\* read_u16 at offset off, as the u32 it widens to
read_u16(data, off, big_endian) ==
    IF big_endian THEN <<0, 0, data[off + 1], data[off + 2]>>
    ELSE <<0, 0, data[off + 2], data[off + 1]>>

\* the bytes write_u32 and write_u16 store
BytesU32(w, big_endian) == IF big_endian THEN w ELSE Reverse4(w)
BytesU16(w, big_endian) == IF big_endian THEN <<w[3], w[4]>> ELSE <<w[4], w[3]>>

\* buffer[off .. off + Len(bytes)] = bytes
WriteBytes(buf, off, bytes) ==
    [i \in 1..Len(buf) |->
        IF i > off /\ i <= off + Len(bytes) THEN bytes[i - off] ELSE buf[i]]

\* the position of the first zero byte of bytes, from 0; -1 when none
RECURSIVE PositionOfNul(_, _)
PositionOfNul(bytes, i) ==
    IF i > Len(bytes) THEN -1
    ELSE IF bytes[i] = 0 THEN i - 1
    ELSE PositionOfNul(bytes, i + 1)

Zeros(n) == [i \in 1..n |-> 0]

\* a u32 as a number, for a u32 below TooBig; TooBig for the others: an
\* offset or a count that large is past the end of every buffer here
TooBig == 536870912

WordToNat(w) == IF Hi16(w) >= TooBig \div 65536 THEN TooBig ELSE Hi16(w) * 65536 + Lo16(w)

SatAdd(a, b) == IF a + b >= TooBig THEN TooBig ELSE a + b
\* a product that counts one row only
SatMul_one_row(a, b) == b

SatMul(a, b) == IF a = 0 \/ b = 0 THEN 0
                ELSE IF a >= TooBig \div b THEN TooBig ELSE a * b

(***************************************************************************)
(* io.rs: to_buffer                                                        *)
(***************************************************************************)
\* w << shift and w >> shift for a u8 shift: a shift of 32 or more panics
\* in a build with overflow checks and is taken modulo 32 in a build without
ShiftLeft(w, shift, overflow_checks) ==
    IF shift < 32 THEN [state |-> "ok", w |-> WShl(w, shift)]
    ELSE IF overflow_checks THEN [state |-> "panic", w |-> WZero]
    ELSE [state |-> "ok", w |-> WShl(w, shift % 32)]

\* a right shift that does not shift
ShiftRight_none(w, shift, overflow_checks) == [state |-> "ok", w |-> w]

ShiftRight(w, shift, overflow_checks) ==
    IF shift < 32 THEN [state |-> "ok", w |-> WShr(w, shift)]
    ELSE IF overflow_checks THEN [state |-> "panic", w |-> WZero]
    ELSE [state |-> "ok", w |-> WShr(w, shift % 32)]

\* an integer arm that overwrites the whole storage word
MergeBits_overwrite(existing, v, field, overflow_checks) ==
    ShiftLeft(I32ToWord(v), field.shift, overflow_checks)

\* the integer arm's read-modify-write of a storage word: [state, w]
\*   (existing & !mask) | (((v as u32) << shift) & mask)
MergeBits(existing, v, field, overflow_checks) ==
    LET sh == ShiftLeft(I32ToWord(v), field.shift, overflow_checks)
    IN  [state |-> sh.state,
         w |-> WOr(WAnd(existing, WNot(field.mask)), WAnd(sh.w, field.mask))]

\* write_field_value.  st is [buffer, string_table, string_offsets, err];
\* string_offsets maps a text to its offset in the string table
StoreInt(st, offset, m, bytes) ==
    IF m.state # "ok" THEN [st EXCEPT !.err = "panic"]
    ELSE [st EXCEPT !.buffer = WriteBytes(st.buffer, offset, bytes)]

\* a StringOffset arm that never reuses an offset
StoreText_nodedup(st, offset, text, opts) ==
    LET str_offset == Len(st.string_table)
    IN  [st EXCEPT
           !.string_table = st.string_table
                            \o encode_string(text, opts.encoding) \o <<0>>,
           !.buffer = WriteBytes(st.buffer, offset,
                                 BytesU32(NatToWord(str_offset), opts.big_endian))]

\* the StringOffset arm
StoreText(st, offset, text, opts) ==
    IF text \in DOMAIN st.string_offsets
    THEN [st EXCEPT !.buffer =
              WriteBytes(st.buffer, offset,
                         BytesU32(NatToWord(st.string_offsets[text]), opts.big_endian))]
    ELSE LET str_offset == Len(st.string_table)
         IN  [st EXCEPT
                !.string_table = st.string_table
                                 \o encode_string(text, opts.encoding) \o <<0>>,
                !.string_offsets = MapPut(st.string_offsets, text, str_offset),
                !.buffer = WriteBytes(st.buffer, offset,
                                      BytesU32(NatToWord(str_offset), opts.big_endian))]

write_field_value(st, offset, value, field, opts, overflow_checks) ==
    LET be == opts.big_endian
        ft == field.field_type
    IN  IF ft \in {"Long", "UnsignedLong"} /\ value.k = "Int"
        THEN LET existing == read_u32(st.buffer, offset, be)
                 masked   == MergeBits(existing, value.v, field, overflow_checks)
             IN  StoreInt(st, offset, masked, BytesU32(masked.w, be))
        ELSE IF ft = "Float" /\ value.k = "Float"
        THEN [st EXCEPT !.buffer = WriteBytes(st.buffer, offset, BytesU32(value.v, be))]
        ELSE IF ft = "Short" /\ value.k = "Int"
        THEN LET existing == read_u16(st.buffer, offset, be)
                 masked   == MergeBits(existing, value.v, field, overflow_checks)
             IN  StoreInt(st, offset, masked, BytesU16(masked.w, be))
        ELSE IF ft = "Char" /\ value.k = "Int"
        THEN LET existing == <<0, 0, 0, st.buffer[offset + 1]>>
                 masked   == MergeBits(existing, value.v, field, overflow_checks)
             IN  StoreInt(st, offset, masked, <<masked.w[4]>>)
        ELSE IF ft = "String" /\ value.k = "String"
        THEN LET bytes == encode_string(value.v, opts.encoding)
                 len   == IF Len(bytes) < 32 THEN Len(bytes) ELSE 32
             IN  [st EXCEPT !.buffer = WriteBytes(st.buffer, offset, SubSeq(bytes, 1, len))]
        ELSE IF ft = "StringOffset" /\ value.k = "String"
        THEN StoreText(st, offset, value.v, opts)
        ELSE [st EXCEPT !.err = "TypeMismatch"]

\* a write_entry that takes a hash with no field for a type mismatch
RECURSIVE write_entry_strict(_, _, _, _, _, _, _, _)
write_entry_strict(st, entry_offset, entry, iter_order, k, sorted, opts, overflow_checks) ==
    IF k > Len(iter_order) \/ st.err # "" THEN st
    ELSE LET hash == iter_order[k]
         IN  IF contains_key(sorted, hash)
             THEN LET field == GetField(sorted, hash)
                  IN  write_entry_strict(
                          write_field_value(st, entry_offset + field.offset,
                                            entry[hash], field, opts, overflow_checks),
                          entry_offset, entry, iter_order, k + 1, sorted, opts,
                          overflow_checks)
             ELSE [st EXCEPT !.err = "TypeMismatch"]

\* write_entry: the entry's values in the order its HashMap yields them
\* (iter_order, a sequence of the entry's hashes); a hash with no field in
\* field_offsets is passed over; the first error ends the loop
RECURSIVE write_entry(_, _, _, _, _, _, _, _)
write_entry(st, entry_offset, entry, iter_order, k, sorted, opts, overflow_checks) ==
    IF k > Len(iter_order) \/ st.err # "" THEN st
    ELSE LET hash == iter_order[k]
         IN  IF contains_key(sorted, hash)
             THEN LET field == GetField(sorted, hash)
                  IN  write_entry(
                          write_field_value(st, entry_offset + field.offset,
                                            entry[hash], field, opts, overflow_checks),
                          entry_offset, entry, iter_order, k + 1, sorted, opts,
                          overflow_checks)
             ELSE write_entry(st, entry_offset, entry, iter_order, k + 1, sorted, opts,
                              overflow_checks)

RECURSIVE WriteEntries(_, _, _, _, _, _, _, _, _)
WriteEntries(st, off, es, iter_orders, i, esize, sorted, opts, overflow_checks) ==
    IF i > Len(es) \/ st.err # "" THEN st
    ELSE WriteEntries(write_entry(st, off, es[i], iter_orders[i], 1, sorted, opts,
                                  overflow_checks),
                      off + esize, es, iter_orders, i + 1, esize, sorted, opts,
                      overflow_checks)

\* a record with the type code before the shift
FieldRecordBytes_type_first(field, big_endian) ==
    BytesU32(field.hash, big_endian) \o BytesU32(field.mask, big_endian)
    \o BytesU16(NatToWord(field.offset), big_endian)
    \o <<raw_type(field.field_type), field.shift>>

\* write_field: the 12 bytes of a directory record
FieldRecordBytes(field, big_endian) ==
    BytesU32(field.hash, big_endian) \o BytesU32(field.mask, big_endian)
    \o BytesU16(NatToWord(field.offset), big_endian)
    \o <<field.shift, raw_type(field.field_type)>>

RECURSIVE DirectoryBytes(_, _, _)
DirectoryBytes(sorted, i, big_endian) ==
    IF i > Len(sorted) THEN <<>>
    ELSE FieldRecordBytes(sorted[i], big_endian) \o DirectoryBytes(sorted, i + 1, big_endian)

\* a rounding that always adds
AlignUp32_plus(len) == ((len \div 32) + 1) * 32

\* (len + 31) & !31
AlignUp32(len) == ((len + 31) \div 32) * 32

PadByte == 64

\* a working copy that keeps the offsets the fields hold
SortedWithOffsets_cached(fs) ==
    LET pos == SortedPositions(fs)
        r   == AssignOffsets(fs, pos, 1, 0)
    IN  [sorted |-> [p \in 1..Len(fs) |-> fs[pos[p]]],
         current_offset |-> r.current_offset]

\* the working copy of to_buffer: the fields in layout order, with the
\* offsets the loop assigns, and the running total
SortedWithOffsets(fs) ==
    LET pos == SortedPositions(fs)
        r   == AssignOffsets(fs, pos, 1, 0)
    IN  [sorted |-> [p \in 1..Len(fs) |-> r.fields[pos[p]]],
         current_offset |-> r.current_offset]

\* to_buffer.  iter_orders[i] is the order in which entry i yields its
\* hashes.  The result is [state, err, bytes, opts] and the parts the bytes
\* are made of; state is "ok", "err" or "panic"
to_buffer(fs, es, iter_orders, opts, overflow_checks) ==
    LET num_entries == Len(es)
        num_fields  == Len(fs)
        off_data    == 16 + num_fields * 12
        lay         == SortedWithOffsets(fs)
        esize       == AlignUp4(lay.current_offset)
        be          == opts.big_endian
        header      == BytesU32(NatToWord(num_entries), be)
                       \o BytesU32(NatToWord(num_fields), be)
                       \o BytesU32(NatToWord(off_data), be)
                       \o BytesU32(NatToWord(esize), be)
        start       == header \o DirectoryBytes(lay.sorted, 1, be)
                       \o Zeros(num_entries * esize)
        st0         == [buffer |-> start, string_table |-> <<>>,
                        string_offsets |-> EmptyMap, err |-> ""]
        st          == WriteEntries(st0, off_data, es, iter_orders, 1, esize,
                                    lay.sorted, opts, overflow_checks)
        unpadded    == st.buffer \o st.string_table
        padded      == unpadded
                       \o [i \in 1..(AlignUp32(Len(unpadded)) - Len(unpadded)) |-> PadByte]
    IN  IF st.err # ""
        THEN [state |-> IF st.err = "panic" THEN "panic" ELSE "err",
              err |-> st.err, bytes |-> <<>>, opts |-> opts,
              entry_size |-> esize, off_data |-> off_data, string_table |-> <<>>]
        ELSE [state |-> "ok", err |-> "", bytes |-> padded, opts |-> opts,
              entry_size |-> esize, off_data |-> off_data,
              string_table |-> st.string_table]

(***************************************************************************)
(* io.rs: from_buffer.  A result is [state, err, ...] with state "ok",     *)
(* "err" (an Err is returned), "panic" (an index or a slice out of range,  *)
(* or an arithmetic overflow in a build that checks for it) or "abort"     *)
(* (memory runs out).  usize is 64 bits wide.                              *)
(***************************************************************************)
\* read_field: [state, err, field]
read_field(data, offset, big_endian) ==
    IF ~InRange(data, offset, offset + 12)
    THEN [state |-> "panic", err |-> <<>>, field |-> <<>>]
    ELSE LET hash         == read_u32(data, offset, big_endian)
             mask         == read_u32(data, offset + 4, big_endian)
             field_offset == WordToNat(read_u16(data, offset + 8, big_endian))
             shift        == data[offset + 11]
             raw          == data[offset + 12]
             t            == from_raw(raw)
         IN  IF ~t.ok
             THEN [state |-> "err", err |-> <<"InvalidFieldType", raw>>, field |-> <<>>]
             ELSE [state |-> "ok", err |-> <<>>,
                   field |-> [hash |-> hash, mask |-> mask, offset |-> field_offset,
                              field_type |-> t.field_type, shift |-> shift,
                              default |-> default_for(t.field_type)]]

Panicked == [state |-> "panic", err |-> <<>>, value |-> <<>>]

\* a decoder that zero-extends the narrow types
SignExtend_zero(masked, field_type) == masked

\* the Int a masked and shifted word becomes: the word itself for the
\* 32-bit types, the word with the bits above bit `top` set when bit `top`
\* is set for the others
SignExtend(masked, field_type) ==
    IF field_type = "Short"
    THEN (IF WBit(masked, 15) = 1 THEN WOr(masked, <<255, 255, 0, 0>>) ELSE masked)
    ELSE IF field_type = "Char"
    THEN (IF WBit(masked, 7) = 1 THEN WOr(masked, <<255, 255, 255, 0>>) ELSE masked)
    ELSE masked

\* decode_string as a value result
TextResult(bytes, encoding) ==
    LET d == decode_string(bytes, encoding)
    IN  IF d.ok THEN [state |-> "ok", err |-> <<>>, value |-> StrValue(d.text)]
        ELSE [state |-> "err", err |-> <<"EncodingError">>, value |-> <<>>]

\* read_field_value: [state, err, value]
read_field_value(data, offset, string_table_offset, field, opts, overflow_checks) ==
    LET be == opts.big_endian
        ft == field.field_type
    IN  IF ft \in {"Long", "UnsignedLong"}
        THEN IF ~InRange(data, offset, offset + 4) THEN Panicked
             ELSE LET raw == read_u32(data, offset, be)
                      sh  == ShiftRight(WAnd(raw, field.mask), field.shift, overflow_checks)
                  IN  IF sh.state # "ok" THEN Panicked
                      ELSE [state |-> "ok", err |-> <<>>,
                            value |-> IntValue(WordToI32(SignExtend(sh.w, ft)))]
        ELSE IF ft = "Float"
        THEN IF ~InRange(data, offset, offset + 4) THEN Panicked
             ELSE [state |-> "ok", err |-> <<>>,
                   value |-> FloatValue(read_u32(data, offset, be))]
        ELSE IF ft = "Short"
        THEN IF ~InRange(data, offset, offset + 2) THEN Panicked
             ELSE LET raw == read_u16(data, offset, be)
                      sh  == ShiftRight(WAnd(raw, field.mask), field.shift, overflow_checks)
                  IN  IF sh.state # "ok" THEN Panicked
                      ELSE [state |-> "ok", err |-> <<>>,
                            value |-> IntValue(WordToI32(SignExtend(sh.w, ft)))]
        ELSE IF ft = "Char"
        THEN IF ~InRange(data, offset, offset + 1) THEN Panicked
             ELSE LET raw == <<0, 0, 0, data[offset + 1]>>
                      sh  == ShiftRight(WAnd(raw, field.mask), field.shift, overflow_checks)
                  IN  IF sh.state # "ok" THEN Panicked
                      ELSE [state |-> "ok", err |-> <<>>,
                            value |-> IntValue(WordToI32(SignExtend(sh.w, ft)))]
        ELSE IF ft = "String"
        THEN IF ~InRange(data, offset, offset + 32) THEN Panicked
             ELSE LET window == Slice(data, offset, offset + 32)
                      pos    == PositionOfNul(window, 1)
                      end    == IF pos < 0 THEN 32 ELSE pos
                  IN  TextResult(SubSeq(window, 1, end), opts.encoding)
        ELSE \* StringOffset
             IF ~InRange(data, offset, offset + 4) THEN Panicked
             ELSE LET str_offset == WordToNat(read_u32(data, offset, be))
                      str_start  == SatAdd(string_table_offset, str_offset)
                  IN  IF str_start > Len(data) THEN Panicked
                      ELSE LET rest == Slice(data, str_start, Len(data))
                               pos  == PositionOfNul(rest, 1)
                               end  == IF pos < 0 THEN 0 ELSE pos
                           IN  TextResult(SubSeq(rest, 1, end), opts.encoding)

\* read_entry: the declared fields in directory order; [state, err, entry]
RECURSIVE read_entry(_, _, _, _, _, _, _, _)
read_entry(data, entry_offset, string_table_offset, fs, k, entry, opts, overflow_checks) ==
    IF k > Len(fs) THEN [state |-> "ok", err |-> <<>>, entry |-> entry]
    ELSE LET field == fs[k]
             r     == read_field_value(data, SatAdd(entry_offset, field.offset),
                                       string_table_offset, field, opts, overflow_checks)
         IN  IF r.state # "ok" THEN [state |-> r.state, err |-> r.err, entry |-> entry]
             ELSE read_entry(data, entry_offset, string_table_offset, fs, k + 1,
                             set_by_hash(entry, field.hash, r.value), opts, overflow_checks)

\* the loop over the field directory: [state, err, fields]
RECURSIVE ReadFields(_, _, _, _, _, _)
ReadFields(data, k, num_fields, off, fs, big_endian) ==
    IF k >= num_fields THEN [state |-> "ok", err |-> <<>>, fields |-> fs]
    ELSE LET r == read_field(data, off, big_endian)
         IN  IF r.state # "ok" THEN [state |-> r.state, err |-> r.err, fields |-> fs]
             ELSE ReadFields(data, k + 1, num_fields, off + 12,
                             IndexMapInsert(fs, r.field.hash, r.field), big_endian)

\* the loop over the rows: [state, err, entries].  A count of rows that is
\* never stopped by the end of the buffer runs until memory is exhausted
RECURSIVE ReadEntries(_, _, _, _, _, _, _, _, _, _)
ReadEntries(data, k, num_entries, off, esize, off_strings, fs, es, opts, overflow_checks) ==
    IF k >= num_entries THEN [state |-> "ok", err |-> <<>>, entries |-> es]
    ELSE LET r == read_entry(data, off, off_strings, fs, 1, EmptyMap, opts, overflow_checks)
         IN  IF r.state # "ok" THEN [state |-> r.state, err |-> r.err, entries |-> es]
             ELSE IF num_entries >= TooBig /\ (esize = 0 \/ fs = <<>>)
             THEN [state |-> "abort", err |-> <<>>, entries |-> es]
             ELSE ReadEntries(data, k + 1, num_entries, SatAdd(off, esize), esize,
                              off_strings, fs, Append(es, r.entry), opts, overflow_checks)

Failed(state, err) ==
    [state |-> state, err |-> err, fields |-> <<>>, entries |-> <<>>,
     entry_size |-> WZero, lookup |-> EmptyMap]

\* a from_buffer that reads the header without testing the length first
from_buffer_unchecked(hash_table, data, opts, overflow_checks) ==
    IF ~InRange(data, 0, 16) THEN Failed("panic", <<>>)
    ELSE LET be          == opts.big_endian
             num_entries == WordToNat(read_u32(data, 0, be))
             num_fields  == WordToNat(read_u32(data, 4, be))
             off_data    == WordToNat(read_u32(data, 8, be))
             esize       == WordToNat(read_u32(data, 12, be))
             off_strings == SatAdd(off_data, SatMul(num_entries, esize))
             rf          == ReadFields(data, 0, num_fields, 16, <<>>, be)
         IN  IF rf.state # "ok" THEN Failed(rf.state, rf.err)
             ELSE LET re == ReadEntries(data, 0, num_entries, off_data, esize, off_strings,
                                        rf.fields, <<>>, opts, overflow_checks)
                  IN  IF re.state # "ok" THEN Failed(re.state, re.err)
                      ELSE [state |-> "ok", err |-> <<>>, fields |-> rf.fields,
                            entries |-> re.entries,
                            entry_size |-> read_u32(data, 12, be),
                            lookup |-> hash_table]

\* from_buffer: [state, err, fields, entries, entry_size, lookup]
from_buffer(hash_table, data, opts, overflow_checks) ==
    IF Len(data) < 16 THEN Failed("err", <<"BufferTooSmall", 16, Len(data)>>)
    ELSE LET be          == opts.big_endian
             num_entries == WordToNat(read_u32(data, 0, be))
             num_fields  == WordToNat(read_u32(data, 4, be))
             off_data    == WordToNat(read_u32(data, 8, be))
             esize       == WordToNat(read_u32(data, 12, be))
             off_strings == SatAdd(off_data, SatMul(num_entries, esize))
             rf          == ReadFields(data, 0, num_fields, 16, <<>>, be)
         IN  IF rf.state # "ok" THEN Failed(rf.state, rf.err)
             ELSE LET re == ReadEntries(data, 0, num_entries, off_data, esize, off_strings,
                                        rf.fields, <<>>, opts, overflow_checks)
                  IN  IF re.state # "ok" THEN Failed(re.state, re.err)
                      ELSE [state |-> "ok", err |-> <<>>, fields |-> rf.fields,
                            entries |-> re.entries,
                            entry_size |-> read_u32(data, 12, be),
                            lookup |-> hash_table]

(***************************************************************************)
(* The calls made and their inputs                                         *)
(***************************************************************************)
MaxAdds    == 4     \* add calls made on the bare hash table
MaxFields  == 3     \* fields the container holds
MaxEntries == 2     \* entries the container holds

\* hashes looked up: those of the names, and some no name here has
ProbeHashes ==
    {calc(n) : n \in HashNames}
    \cup {<<222, 173, 190, 239>>, <<0, 0, 171, 205>>, WZero, WOnes}

tA  == <<65>>           \* "A"
tAB == <<65, 66>>       \* "AB"
f15 == <<63, 192, 0, 0>> \* 1.5f32

\* create_field calls whose default is of the type's family: those made on
\* the container of Spec, and those made on the container that is encoded
FieldInputs ==
    { [name |-> nAa, field_type |-> "Long",         default |-> IntValue(7)],
      [name |-> nBB, field_type |-> "Short",        default |-> IntValue(40000)],
      [name |-> nC,  field_type |-> "StringOffset", default |-> StrValue(tA)],
      [name |-> nE,  field_type |-> "Char",         default |-> IntValue(200)] }

CodecFieldInputs ==
    { [name |-> nAa, field_type |-> "Long",         default |-> IntValue(7)],
      [name |-> nAa, field_type |-> "String",       default |-> StrValue(tAB)],
      [name |-> nBB, field_type |-> "Short",        default |-> IntValue(40000)],
      [name |-> nBB, field_type |-> "Float",        default |-> FloatValue(f15)],
      [name |-> nC,  field_type |-> "Char",         default |-> IntValue(200)],
      [name |-> nC,  field_type |-> "StringOffset", default |-> StrValue(tA)],
      [name |-> nE,  field_type |-> "UnsignedLong", default |-> IntValue(-1)],
      [name |-> nE,  field_type |-> "StringOffset", default |-> StrValue(tA)] }

\* create_field calls whose default is not of the type's family
BadFieldInputs ==
    { inp \in [name : {nC}, field_type : FieldTypes,
               default : {IntValue(1), FloatValue(f15), StrValue(tA)}] :
        ~(\/ inp.default.k = "Int" /\ inp.field_type \in {"Long", "UnsignedLong", "Short", "Char"}
          \/ inp.default.k = "Float" /\ inp.field_type = "Float"
          \/ inp.default.k = "String" /\ inp.field_type \in {"String", "StringOffset"}) }

NoCall == [op |-> "none", status |-> "Ok", name |-> <<>>, hash |-> <<>>,
           text |-> <<>>, index |-> 0, len |-> 0]

NoBuffer == [state |-> "none"]
NoLoad   == [state |-> "none"]

\* JMapInfo::new(FileHashTable::new(..))
Init ==
    /\ lookup = EmptyMap
    /\ fields = <<>>
    /\ entries = <<>>
    /\ entry_size = 0
    /\ last = NoCall
    /\ added = <<>>
    /\ buffer = NoBuffer
    /\ loaded = NoLoad

(***************************************************************************)
(* HashSpec: calls on a FileHashTable                                      *)
(***************************************************************************)
HtAdd(name) ==
    /\ Len(added) < MaxAdds
    /\ lookup' = add(lookup, name)
    /\ added' = Append(added, name)
    /\ last' = [NoCall EXCEPT !.op = "add", !.name = name, !.hash = calc(name)]
    /\ UNCHANGED <<fields, entries, entry_size, buffer, loaded>>

HtFind(hash) ==
    /\ last' = [NoCall EXCEPT !.op = "find", !.hash = hash, !.text = find(lookup, hash)]
    /\ UNCHANGED <<lookup, added, fields, entries, entry_size, buffer, loaded>>

HashNext ==
    \/ \E name \in HashNames : HtAdd(name)
    \/ \E hash \in ProbeHashes : HtFind(hash)

HashSpec == Init /\ [][HashNext]_vars

(***************************************************************************)
(* Spec: calls on a JMapInfo                                               *)
(***************************************************************************)
CreateField(inp) ==
    LET r == create_field(lookup, fields, entries, inp.name, inp.field_type, inp.default)
    IN  /\ r.status = "Ok" => Len(fields) < MaxFields
        /\ lookup' = r.lookup
        /\ fields' = r.fields
        /\ entries' = r.entries
        /\ last' = [NoCall EXCEPT !.op = "create_field", !.status = r.status,
                                  !.name = inp.name, !.hash = calc(inp.name)]
        /\ UNCHANGED <<entry_size, added, buffer, loaded>>

DropField(name) ==
    LET r == drop_field(fields, entries, name)
    IN  /\ fields' = r.fields
        /\ entries' = r.entries
        /\ last' = [NoCall EXCEPT !.op = "drop_field", !.status = r.status,
                                  !.name = name, !.hash = calc(name)]
        /\ UNCHANGED <<lookup, entry_size, added, buffer, loaded>>

CreateEntry ==
    /\ Len(entries) < MaxEntries
    /\ entries' = create_entry(fields, entries)
    /\ last' = [NoCall EXCEPT !.op = "create_entry", !.len = Len(entries)]
    /\ UNCHANGED <<lookup, fields, entry_size, added, buffer, loaded>>

RemoveEntry(index) ==
    LET r == remove_entry(entries, index)
    IN  /\ entries' = r.entries
        /\ last' = [NoCall EXCEPT !.op = "remove_entry", !.status = r.status,
                                  !.index = r.index, !.len = r.len]
        /\ UNCHANGED <<lookup, fields, entry_size, added, buffer, loaded>>

\* JMapInfo::clear_entries
ClearEntries ==
    /\ entries' = <<>>
    /\ last' = [NoCall EXCEPT !.op = "clear_entries"]
    /\ UNCHANGED <<lookup, fields, entry_size, added, buffer, loaded>>

\* buffers a container is decoded from, big-endian.  SampleBuilt is what
\* to_buffer gives for a Long field "Aa" and a StringOffset field "C" and
\* one row (-2, "AB"); SamplePacked has two fields packed into the last
\* byte of a 4-byte row and a directory that names one hash twice
SampleOpts == [big_endian |-> TRUE, encoding |-> "ShiftJis"]

SampleBuilt ==
    <<0, 0, 0, 1,  0, 0, 0, 2,  0, 0, 0, 40,  0, 0, 0, 8,
      0, 0, 8, 64,  255, 255, 255, 255,  0, 0,  0, 0,
      0, 0, 0, 67,  255, 255, 255, 255,  0, 4,  0, 6,
      255, 255, 255, 254,  0, 0, 0, 0,
      65, 66, 0,
      64, 64, 64, 64, 64, 64, 64, 64, 64, 64, 64, 64, 64>>

SamplePacked ==
    <<0, 0, 0, 1,  0, 0, 0, 3,  0, 0, 0, 52,  0, 0, 0, 4,
      0, 0, 8, 64,  0, 0, 0, 15,  0, 0,  0, 0,
      255, 255, 248, 70,  0, 0, 0, 240,  0, 0,  4, 0,
      0, 0, 8, 64,  0, 0, 0, 255,  0, 3,  0, 5,
      0, 0, 0, 90,
      64, 64, 64, 64, 64, 64, 64, 64>>

SampleBuffers == {SampleBuilt, SamplePacked}

\* the container is the one a from_buffer result r holds
Decoded(r) ==
    /\ r.state = "ok"
    /\ lookup' = r.lookup
    /\ fields' = r.fields
    /\ entries' = r.entries
    /\ entry_size' = WordToNat(r.entry_size)

\* from_buffer(FileHashTable::new(), data, options): the container the
\* calls are made on is the one decoded from data
FromSample(data) ==
    /\ last = NoCall
    /\ Decoded(from_buffer(lookup, data, SampleOpts, TRUE))
    /\ last' = [NoCall EXCEPT !.op = "from_buffer"]
    /\ UNCHANGED <<added, buffer, loaded>>

RecalculateOffsets ==
    LET r == recalculate_offsets(fields)
    IN  /\ fields' = r.fields
        /\ entry_size' = r.entry_size
        /\ last' = [NoCall EXCEPT !.op = "recalculate_offsets"]
        /\ UNCHANGED <<lookup, entries, added, buffer, loaded>>

Next ==
    \/ \E inp \in FieldInputs \cup BadFieldInputs : CreateField(inp)
    \/ \E name \in Names : DropField(name)
    \/ CreateEntry
    \/ \E index \in 0..MaxEntries : RemoveEntry(index)
    \/ ClearEntries
    \/ RecalculateOffsets
    \/ \E data \in SampleBuffers : FromSample(data)

Spec == Init /\ [][Next]_vars

(***************************************************************************)
(* LayoutSpec: fields of all seven types are created and the offsets are   *)
(* recomputed                                                              *)
(***************************************************************************)
LayoutNext ==
    \/ \E inp \in CodecFieldInputs : CreateField(inp)
    \/ CreateEntry
    \/ RecalculateOffsets

LayoutSpec == Init /\ [][LayoutNext]_vars

(***************************************************************************)
(* CodecSpec: a container is built with create_field, create_entry and     *)
(* Entry::set, encoded with to_buffer, and the bytes are decoded with      *)
(* from_buffer.  buffer holds the result of to_buffer and what it was made *)
(* of; loaded holds the result of from_buffer on those bytes.  The         *)
(* container is left alone while a buffer made from it is held.            *)
(***************************************************************************)
MaxCodecFields  == 2    \* fields of an encoded container
MaxCodecEntries == 2    \* entries of an encoded container

t32     == [i \in 1..32 |-> 65]                              \* 32 times "A"
t31Kana == [i \in 1..32 |-> IF i = 32 THEN 12354 ELSE 65]    \* 31 times "A", U+3042
tNul    == <<65, 0, 66>>                                     \* "A\0B"
tE      == <<233>>                                           \* U+00E9
tKana   == <<12354>>                                         \* U+3042

\* the values Entry::set is called with, by the type of the field set;
\* each is of the type's family
SetValues(field_type) ==
    CASE field_type \in {"Long", "UnsignedLong", "Short", "Char"} ->
            {IntValue(-2)}
      [] field_type = "Float" -> {FloatValue(<<128, 0, 0, 0>>)}
      [] field_type = "String" -> {StrValue(t32), StrValue(t31Kana), StrValue(tNul)}
      [] field_type = "StringOffset" -> {StrValue(tKana), StrValue(tNul), StrValue(tE)}

\* IoOptions
Options == [big_endian : BOOLEAN, encoding : {"ShiftJis", "Utf8"}]

\* the orders in which a HashMap with the keys S can yield them
Perms(S) ==
    {p \in [1..Cardinality(S) -> S] : \A i, j \in 1..Cardinality(S) : p[i] = p[j] => i = j}

\* the builds that can differ on these fields: with and without overflow
\* checks when a shift is 32 or more, one build otherwise
Builds(fs) == IF \E i \in 1..Len(fs) : fs[i].shift >= 32 THEN BOOLEAN ELSE {TRUE}

IterOrders(es) ==
    {ords \in [1..Len(es) -> UNION {Perms(DOMAIN es[i]) : i \in 1..Len(es)}] :
        \A i \in 1..Len(es) : ords[i] \in Perms(DOMAIN es[i])}

BuildCreateField(inp) ==
    LET r == create_field(lookup, fields, entries, inp.name, inp.field_type, inp.default)
    IN  /\ buffer.state = "none"
        /\ Len(fields) < MaxCodecFields
        /\ r.status = "Ok"
        /\ lookup' = r.lookup
        /\ fields' = r.fields
        /\ entries' = r.entries
        /\ UNCHANGED <<entry_size, last, added, buffer, loaded>>

BuildCreateEntry ==
    /\ buffer.state = "none"
    /\ Len(entries) < MaxCodecEntries
    /\ entries' = create_entry(fields, entries)
    /\ UNCHANGED <<lookup, fields, entry_size, last, added, buffer, loaded>>

\* Entry::set on entry i (from 1) with the name of a declared field
BuildSet(i, name, value) ==
    /\ buffer.state = "none"
    /\ contains_key(fields, calc(name))
    /\ value \in SetValues(GetField(fields, calc(name)).field_type)
    /\ entries' = [entries EXCEPT ![i] = set_by_hash(@, calc(name), value)]
    /\ UNCHANGED <<lookup, fields, entry_size, last, added, buffer, loaded>>

ToBuffer(opts, iter_orders, overflow_checks) ==
    /\ buffer.state = "none"
    /\ buffer' = to_buffer(fields, entries, iter_orders, opts, overflow_checks)
    /\ UNCHANGED <<lookup, fields, entries, entry_size, last, added, loaded>>

FromBuffer(overflow_checks) ==
    /\ buffer.state = "ok"
    /\ loaded.state = "none"
    /\ loaded' = from_buffer(lookup, buffer.bytes, buffer.opts, overflow_checks)
    /\ UNCHANGED <<lookup, fields, entries, entry_size, last, added, buffer>>

\* the buffer and what was decoded from it are dropped
Discard ==
    /\ buffer.state # "none"
    /\ buffer' = NoBuffer
    /\ loaded' = NoLoad
    /\ UNCHANGED <<lookup, fields, entries, entry_size, last, added>>

AllSetValues == UNION {SetValues(t) : t \in FieldTypes}

CodecNext ==
    \/ \E inp \in CodecFieldInputs : BuildCreateField(inp)
    \/ BuildCreateEntry
    \/ \E i \in 1..Len(entries), name \in Names, value \in AllSetValues :
          BuildSet(i, name, value)
    \/ \E opts \in Options, iter_orders \in IterOrders(entries),
          overflow_checks \in Builds(fields) :
          ToBuffer(opts, iter_orders, overflow_checks)
    \/ \E overflow_checks \in BOOLEAN : FromBuffer(overflow_checks)
    \/ Discard

CodecSpec == Init /\ [][CodecNext]_vars

(***************************************************************************)
(* FileSpec: a container is decoded from a sample or built, values of any  *)
(* variant are put into its rows, and it is encoded; buffers that are not  *)
(* the output of to_buffer are decoded                                     *)
(***************************************************************************)
\* the values Entry::set_by_hash is called with, whatever the field's type
AnyValues == {IntValue(1), StrValue(tAB)}

\* the first n bytes of a buffer
Prefix(data, n) == SubSeq(data, 1, n)

\* the buffer with the type code of directory record k (from 1) replaced
Corrupt(data, k, code) == [data EXCEPT ![16 + 12 * k] = code]

\* type codes no field type has
BadCodes == {7, 255}

\* a buffer with six integer fields (Long, UnsignedLong, Short, Short with
\* mask 0FF0 and shift 4, Char, Char with mask F0 and shift 4) and two rows
SampleInts ==
    <<0, 0, 0, 2,  0, 0, 0, 6,  0, 0, 0, 88,  0, 0, 0, 16,
      0, 0, 0, 1,  255, 255, 255, 255,  0, 0,   0, 0,
      0, 0, 0, 2,  255, 255, 255, 255,  0, 4,   0, 3,
      0, 0, 0, 3,  0, 0, 255, 255,      0, 8,   0, 4,
      0, 0, 0, 4,  0, 0, 15, 240,       0, 10,  4, 4,
      0, 0, 0, 5,  0, 0, 0, 255,        0, 12,  0, 5,
      0, 0, 0, 6,  0, 0, 0, 240,        0, 13,  4, 5,
      0, 0, 0, 7,      255, 255, 255, 254,  128, 1,  24, 4,   144, 154,  0, 0,
      128, 0, 0, 0,    127, 255, 255, 255,  127, 255,  248, 15,  127, 15,  0, 0,
      64, 64, 64, 64, 64, 64, 64, 64>>

\* a buffer with two StringOffset fields and two rows; the pool holds
\* "AB", an empty text and "C", and the rows hold the offsets (0, 4) and
\* (2, 1): the start of "AB", of "C", the null byte after "AB", and "B"
SampleTexts ==
    <<0, 0, 0, 2,  0, 0, 0, 2,  0, 0, 0, 40,  0, 0, 0, 8,
      0, 0, 0, 67,  255, 255, 255, 255,  0, 0,  0, 6,
      0, 0, 0, 5,   255, 255, 255, 255,  0, 4,  0, 6,
      0, 0, 0, 0,  0, 0, 0, 4,
      0, 0, 0, 2,  0, 0, 0, 1,
      65, 66, 0, 0, 67, 0,
      64, 64>>

\* SampleBuilt with the null byte after "AB" replaced: no null byte
\* follows the text
Unterminated == [SampleBuilt EXCEPT ![51] = 64]

\* a buffer with no row and one Long field "Aa" whose shift is 32
SampleWideShift ==
    <<0, 0, 0, 0,  0, 0, 0, 1,  0, 0, 0, 28,  0, 0, 0, 4,
      0, 0, 8, 64,  255, 255, 255, 255,  0, 0,  32, 0,
      64, 64, 64, 64>>

FileSamples == SampleBuffers \cup {SampleWideShift}

\* SampleBuilt with one header word, one directory byte or one row byte
\* changed so that it points past the end of the buffer: the field count
\* (of a buffer cut at the end of the directory), the entry count, the
\* row-region offset, the row size, the offset and the shift of the Long
\* field, and the text offset the row holds
BadFieldCount   == [Prefix(SampleBuilt, 40) EXCEPT ![8] = 3]
BadEntryCount   == [SampleBuilt EXCEPT ![4] = 9]
BadDataOffset   == [SampleBuilt EXCEPT ![12] = 200]
BadRowSize      == [SampleBuilt EXCEPT ![16] = 100]
BadFieldOffset  == [SampleBuilt EXCEPT ![26] = 100]
BadShift        == [SampleBuilt EXCEPT ![27] = 32]
BadTextOffset   == [SampleBuilt EXCEPT ![48] = 100]

\* a header alone, with 2^32 - 1 entries, no field and a row size of 0
EndlessRows ==
    <<255, 255, 255, 255,  0, 0, 0, 0,  0, 0, 0, 16,  0, 0, 0, 0>>

\* SampleBuilt with the text "AB" of its pool replaced by bytes that are
\* text in neither encoding: FF 42, and 82 alone (a lead byte with no
\* trail byte in Shift-JIS, a continuation byte with no start in UTF-8)
MalformedFF   == [SampleBuilt EXCEPT ![49] = 255]
MalformedLead == [SampleBuilt EXCEPT ![49] = 130, ![50] = 0]

MalformedTextBuffers == {MalformedFF, MalformedLead}

HostileBuffers ==
    {BadFieldCount, BadEntryCount, BadDataOffset, BadRowSize, BadFieldOffset,
     BadShift, BadTextOffset, EndlessRows}

\* buffers cut inside the header, buffers with a type code that no field
\* type has (whole, and cut at the end of the directory), and the samples
FileBuffers ==
    {Prefix(SampleBuilt, n) : n \in 0..15}
    \cup {Corrupt(SamplePacked, k, code) : k \in 1..3, code \in BadCodes}
    \cup {Prefix(Corrupt(SamplePacked, k, code), 52) : k \in 1..3, code \in BadCodes}
    \cup FileSamples
    \cup HostileBuffers
    \cup MalformedTextBuffers
    \cup {SampleInts, SampleTexts, Unterminated}

LoadSample(data) ==
    /\ buffer.state = "none"
    /\ FromSample(data)

\* Entry::set_by_hash on entry i (from 1) with the hash of a declared field
BuildSetByHash(i, hash, value) ==
    /\ buffer.state = "none"
    /\ contains_key(fields, hash)
    /\ entries' = [entries EXCEPT ![i] = set_by_hash(@, hash, value)]
    /\ UNCHANGED <<lookup, fields, entry_size, last, added, buffer, loaded>>

BuildRecalculate ==
    LET r == recalculate_offsets(fields)
    IN  /\ buffer.state = "none"
        /\ fields' = r.fields
        /\ entry_size' = r.entry_size
        /\ UNCHANGED <<lookup, entries, last, added, buffer, loaded>>

\* from_buffer on a buffer read from a file, before any other call: buffer
\* holds the bytes and the options, loaded the result
DecodeFile(data, opts, overflow_checks) ==
    /\ buffer.state = "none"
    /\ last = NoCall
    /\ fields = <<>>
    /\ entries = <<>>
    /\ buffer' = [state |-> "file", bytes |-> data, opts |-> opts]
    /\ loaded' = from_buffer(lookup, data, opts, overflow_checks)
    /\ UNCHANGED <<lookup, fields, entries, entry_size, last, added>>

FileNext ==
    \/ \E data \in FileSamples : LoadSample(data)
    \/ \E inp \in FieldInputs : BuildCreateField(inp)
    \/ BuildCreateEntry
    \/ \E i \in 1..Len(entries), hash \in ProbeHashes, value \in AnyValues :
          BuildSetByHash(i, hash, value)
    \/ BuildRecalculate
    \/ \E opts \in Options, iter_orders \in IterOrders(entries),
          overflow_checks \in Builds(fields) :
          ToBuffer(opts, iter_orders, overflow_checks)
    \/ \E data \in FileBuffers, opts \in Options, overflow_checks \in BOOLEAN :
          DecodeFile(data, opts, overflow_checks)
    \/ Discard

FileSpec == Init /\ [][FileNext]_vars

(***************************************************************************)
(* PackSpec: write_field_value is called on one row whose integer fields   *)
(* share their storage words                                               *)
(***************************************************************************)
PackedField(k, field_type, mask, offset, shift) ==
    [hash |-> <<0, 0, 0, k>>, mask |-> mask, offset |-> offset,
     field_type |-> field_type, shift |-> shift, default |-> IntValue(0)]

\* three Long fields in one 32-bit word; two Short fields in one 16-bit
\* word followed by two Char fields in one byte
PackedLayouts ==
    { << PackedField(1, "Long", <<0, 0, 0, 15>>, 0, 0),
         PackedField(2, "Long", <<0, 0, 0, 240>>, 0, 4),
         PackedField(3, "UnsignedLong", <<255, 255, 255, 0>>, 0, 8) >>,
      << PackedField(1, "Short", <<0, 0, 0, 255>>, 0, 0),
         PackedField(2, "Short", <<0, 0, 255, 0>>, 0, 8),
         PackedField(3, "Char", <<0, 0, 0, 15>>, 2, 0),
         PackedField(4, "Char", <<0, 0, 0, 240>>, 2, 4) >> }

\* what the row holds before the first write
PackedRows == {<<0, 0, 0, 0>>, <<165, 90, 60, 195>>}

\* the integers written
PackedValues == {5, 9, -1}

PackInit ==
    /\ lookup = EmptyMap
    /\ fields \in PackedLayouts
    /\ entries = <<EmptyMap>>
    /\ entry_size = 4
    /\ last = NoCall
    /\ added = <<>>
    /\ buffer \in [state : {"row"}, bytes : PackedRows,
                   opts : [big_endian : BOOLEAN, encoding : {"ShiftJis"}]]
    /\ loaded = NoLoad

\* write_field_value(buffer, field.offset, Int(v), field, ..) for field j
\* of the row; the row remembers the value as the entry's
PackWrite(j, v) ==
    LET field == fields[j]
        st    == write_field_value([buffer |-> buffer.bytes, string_table |-> <<>>,
                                    string_offsets |-> EmptyMap, err |-> ""],
                                   field.offset, IntValue(v), field, buffer.opts, TRUE)
    IN  /\ st.err = ""
        /\ buffer' = [buffer EXCEPT !.bytes = st.buffer]
        /\ entries' = <<set_by_hash(entries[1], field.hash, IntValue(v))>>
        /\ last' = [NoCall EXCEPT !.op = "write_field_value", !.hash = field.hash,
                                  !.index = j]
        /\ UNCHANGED <<lookup, fields, entry_size, added, loaded>>

PackNext == \E j \in 1..Len(fields), v \in PackedValues : PackWrite(j, v)

PackSpec == PackInit /\ [][PackNext]_vars

(***************************************************************************)
(* InertSpec: rows are given values under a hash no field has, and the     *)
(* container is encoded and decoded                                        *)
(***************************************************************************)
\* a hash that is the hash of no name used here
StrayHash == <<222, 173, 190, 239>>

StrayValues == {IntValue(1), FloatValue(f15), StrValue(tAB)}

\* Entry::set_by_hash on entry i (from 1) with a hash no field has
BuildSetStray(i, value) ==
    /\ buffer.state = "none"
    /\ ~contains_key(fields, StrayHash)
    /\ entries' = [entries EXCEPT ![i] = set_by_hash(@, StrayHash, value)]
    /\ UNCHANGED <<lookup, fields, entry_size, last, added, buffer, loaded>>

InertNext ==
    \/ \E inp \in FieldInputs : BuildCreateField(inp)
    \/ BuildCreateEntry
    \/ \E i \in 1..Len(entries), value \in StrayValues : BuildSetStray(i, value)
    \/ \E opts \in Options, iter_orders \in IterOrders(entries),
          overflow_checks \in Builds(fields) :
          ToBuffer(opts, iter_orders, overflow_checks)
    \/ \E overflow_checks \in BOOLEAN : FromBuffer(overflow_checks)
    \/ Discard

InertSpec == Init /\ [][InertNext]_vars

(***************************************************************************)
(* SparseSpec: a row is replaced, through entries_mut, by the entry of a   *)
(* container that declares no field; the row then holds only what is set   *)
(* on it afterwards, and the container is encoded and decoded              *)
(***************************************************************************)
\* the entry create_entry makes in a container without fields
BlankEntry == create_entry(<<>>, <<>>)[1]

\* jmap.entries_mut()[i] = blank.clone(), for entry i (from 1)
BuildAssignEntry(i) ==
    /\ buffer.state = "none"
    /\ entries[i] # BlankEntry
    /\ entries' = [entries EXCEPT ![i] = BlankEntry]
    /\ UNCHANGED <<lookup, fields, entry_size, last, added, buffer, loaded>>

SparseNext ==
    \/ \E inp \in CodecFieldInputs : BuildCreateField(inp)
    \/ BuildCreateEntry
    \/ \E i \in 1..Len(entries) : BuildAssignEntry(i)
    \/ \E i \in 1..Len(entries), name \in Names, value \in AllSetValues :
          BuildSet(i, name, value)
    \/ \E opts \in Options, iter_orders \in IterOrders(entries),
          overflow_checks \in Builds(fields) :
          ToBuffer(opts, iter_orders, overflow_checks)
    \/ \E overflow_checks \in BOOLEAN : FromBuffer(overflow_checks)
    \/ Discard

SparseSpec == Init /\ [][SparseNext]_vars

(***************************************************************************)
(* Claims on the hash table (HashSpec)                                     *)
(***************************************************************************)
\* the fold h := (h * 31 + sext8(b)) mod 2^32 from h = 0, h held as
\* hi * 65536 + lo, the signed term added as an integer
Sext8(b) == IF b >= 128 THEN b - 256 ELSE b

RECURSIVE FoldHash(_, _, _, _)
FoldHash(name, i, hi, lo) ==
    IF i > Len(name) THEN MkWord(hi, lo)
    ELSE LET t == lo * 31 + Sext8(name[i])
         IN  FoldHash(name, i + 1, (hi * 31 + (t \div 65536)) % 65536, t % 65536)

\* C2: whenever add has hashed a name, the hash it returned is the left fold
\* h := (h*31 + sext8(b)) mod 2^32 over the name's bytes from h = 0; it is
\* 0xED08B591 for "ScenarioNo" and 0x3666C077 for "ZoneName".
C2_HashIsSignedFold ==
    /\ last.op = "add" =>
          /\ last.hash = FoldHash(last.name, 1, 0, 0)
          /\ last.name = nScenarioNo => last.hash = <<237, 8, 181, 145>>
          /\ last.name = nZoneName => last.hash = <<54, 102, 192, 119>>
    /\ \A h \in DOMAIN lookup : h = FoldHash(lookup[h], 1, 0, 0)

C2_Witness ==
    /\ last.op = "add"
    /\ last.name = nE
    /\ <<237, 8, 181, 145>> \in DOMAIN lookup
    /\ <<54, 102, 192, 119>> \in DOMAIN lookup

\* the first name of the add calls that has the hash of name n
FirstAdded(n) ==
    added[CHOOSE i \in 1..Len(added) :
              /\ calc(added[i]) = calc(n)
              /\ \A j \in 1..(i - 1) : calc(added[j]) # calc(n)]

C4_AddKeepsBindings ==
    [][Len(added') = Len(added) + 1 =>
          LET name == added'[Len(added')]
              hash == calc(name)
          IN  /\ last'.op = "add"
              /\ last'.hash = hash
              /\ \A h \in DOMAIN lookup : h \in DOMAIN lookup' /\ lookup'[h] = lookup[h]
              /\ DOMAIN lookup' = DOMAIN lookup \cup {hash}
              /\ hash \notin DOMAIN lookup => lookup'[hash] = name]_vars

C4_Witness ==
    /\ Len(added) >= 2
    /\ added[1] = nBB
    /\ added[2] = nAa
    /\ lookup[calc(nAa)] = nBB

\* C5: find on a hash that has no name returns '[', the hash as exactly 8
\* upper-case zero-padded hex digits, ']'; read back as a column name by
\* the bracket and hex convention, that text gives the hash again.
UpperHexDigits == (48..57) \cup (65..70)

C5_FallbackRoundTrip ==
    (last.op = "find" /\ last.hash \notin DOMAIN lookup) =>
        /\ Len(last.text) = 10
        /\ last.text[1] = 91
        /\ last.text[10] = 93
        /\ \A i \in 2..9 : last.text[i] \in UpperHexDigits
        /\ \A j \in 1..4 :
              /\ HexValue(last.text[2 * j]) = last.hash[j] \div 16
              /\ HexValue(last.text[2 * j + 1]) = last.hash[j] % 16
        /\ ParseColumnHash(last.text) = [bracketed |-> TRUE, ok |-> TRUE, hash |-> last.hash]

C5_Witness ==
    /\ last.op = "find"
    /\ last.hash = <<0, 0, 171, 205>>
    /\ last.text = <<91, 48, 48, 48, 48, 65, 66, 67, 68, 93>>
    /\ lookup # EmptyMap

(***************************************************************************)
(* Claims on the container (Spec)                                          *)
(***************************************************************************)
\* C8 as stated: the field directory keeps the order of creation: a step
\* leaves every two fields that remain in the relative order they had, and
\* puts a field it adds after the fields that were there
C8_DirectoryKeepsOrder ==
    [][ /\ \A a, b \in Keys(fields) \cap Keys(fields') :
              IndexOf(fields, a) < IndexOf(fields, b)
                  => IndexOf(fields', a) < IndexOf(fields', b)
        /\ \A a \in Keys(fields) \cap Keys(fields'), n \in Keys(fields') \ Keys(fields) :
              IndexOf(fields', a) < IndexOf(fields', n) ]_vars

\* C9: in the container JMapInfo::new or from_buffer gives, and after every
\* call of create_field, drop_field, create_entry, remove_entry and
\* clear_entries, failed ones included, each entry holds exactly the hashes
\* of the field directory
C9_RowsExposeAllFields ==
    \A i \in 1..Len(entries) : DOMAIN entries[i] = Keys(fields)

\* a create_field has succeeded on a decoded container that held a row
C9_Witness ==
    /\ last.op = "create_field" /\ last.status = "Ok"
    /\ Len(entries) >= 1
    /\ Len(fields) = 3
    /\ \E i \in 1..Len(fields) : fields[i].shift = 4

\* C10: a create_field call whose default is not of the family of the type
\* (Int for Long, UnsignedLong, Short and Char, Float for Float, String for
\* String and StringOffset) returns TypeMismatch and leaves the field
\* directory, the entries and the reverse index of the hash table as they
\* were
C10_TypeMismatchChangesNothing ==
    [][\A inp \in BadFieldInputs :
          (last'.op = "create_field" /\ last'.name = inp.name /\ CreateField(inp))
              => /\ last'.status = "TypeMismatch"
                 /\ UNCHANGED <<fields, entries, lookup>>]_vars

\* a mismatched create_field was refused on a container that holds a field
\* and a row, for a name the reverse index does not hold
C10_Witness ==
    /\ last.op = "create_field" /\ last.status = "TypeMismatch"
    /\ Len(fields) >= 1 /\ Len(entries) >= 1
    /\ last.hash \notin DOMAIN lookup

\* C11 as stated: a create_field call that returns FieldAlreadyExists
\* leaves the field directory, the entries and the reverse index of the
\* hash table as they were, also when the field was decoded from a buffer
\* and the reverse index did not hold its name
C11_AlreadyExistsChangesNothing ==
    [][(last'.op = "create_field" /\ last'.status = "FieldAlreadyExists")
          => UNCHANGED <<fields, entries, lookup>>]_vars

\* C12: drop_field(name) returns FieldNotFound and changes nothing when no
\* field has the hash of name; otherwise it succeeds, the directory and the
\* entries no longer hold the hash, and every other field definition and
\* every other value of every entry is as it was
C12_DropField ==
    [][\A name \in Names :
          (last'.op = "drop_field" /\ last'.name = name /\ DropField(name))
              => IF calc(name) \notin Keys(fields)
                 THEN /\ last'.status = "FieldNotFound"
                      /\ UNCHANGED <<fields, entries, lookup, entry_size>>
                 ELSE /\ last'.status = "Ok"
                      /\ calc(name) \notin Keys(fields')
                      /\ Len(fields') = Len(fields) - 1
                      /\ {fields'[j] : j \in 1..Len(fields')}
                            = {fields[j] : j \in {k \in 1..Len(fields) :
                                                    fields[k].hash # calc(name)}}
                      /\ Len(entries') = Len(entries)
                      /\ \A i \in 1..Len(entries) :
                            /\ DOMAIN entries'[i] = DOMAIN entries[i] \ {calc(name)}
                            /\ \A h \in DOMAIN entries'[i] :
                                  entries'[i][h] = entries[i][h]]_vars

\* a field was dropped from a container that keeps a field and a row
C12_Witness ==
    /\ last.op = "drop_field" /\ last.status = "Ok"
    /\ Len(fields) >= 1 /\ Len(entries) >= 1
    /\ \A i \in 1..Len(entries) : last.hash \notin DOMAIN entries[i]

\* C13: remove_entry(index) with index at or past the number of entries
\* returns EntryIndexOutOfBounds with that index and that number and leaves
\* the entries as they were; with a smaller index it removes the entry at
\* that index and keeps the others in their order
C13_RemoveEntry ==
    [][\A index \in 0..MaxEntries :
          (last'.op = "remove_entry" /\ last'.index = index /\ RemoveEntry(index))
              => IF index >= Len(entries)
                 THEN /\ last'.status = "EntryIndexOutOfBounds"
                      /\ last'.index = index
                      /\ last'.len = Len(entries)
                      /\ UNCHANGED <<entries, fields>>
                 ELSE /\ last'.status = "Ok"
                      /\ Len(entries') = Len(entries) - 1
                      /\ \A k \in 1..Len(entries') :
                            entries'[k] = IF k <= index THEN entries[k]
                                          ELSE entries[k + 1]
                      /\ UNCHANGED fields]_vars

\* the first of two rows was removed, and the row that stays is not the
\* one decoded from the buffer
C13_Witness ==
    /\ last.op = "remove_entry" /\ last.status = "Ok"
    /\ last.index = 0 /\ last.len = 2
    /\ Len(entries) = 1
    /\ \E j \in 1..Len(fields) :
          /\ fields[j].field_type = "StringOffset"
          /\ entries[1][fields[j].hash] = StrValue(<<>>)

\* C14: create_entry appends one row at the end; the row holds, for every
\* field, the default the field was created with (the one given to
\* create_field) and no other hash; the rows that were there and the field
\* directory are as they were
C14_CreateEntry ==
    [][ /\ \A inp \in FieldInputs :
              (last'.op = "create_field" /\ last'.name = inp.name
                  /\ last'.status = "Ok" /\ CreateField(inp))
                  => GetField(fields', calc(inp.name)).default = inp.default
        /\ (last'.op = "create_entry" /\ CreateEntry)
              => /\ Len(entries') = Len(entries) + 1
                 /\ SubSeq(entries', 1, Len(entries)) = entries
                 /\ DOMAIN entries'[Len(entries')] = Keys(fields)
                 /\ \A j \in 1..Len(fields) :
                       entries'[Len(entries')][fields[j].hash] = fields[j].default
                 /\ UNCHANGED fields ]_vars

\* a second row was made for fields whose defaults are not those of their
\* types
C14_Witness ==
    /\ last.op = "create_entry"
    /\ Len(entries) = 2 /\ Len(fields) >= 2
    /\ \E j \in 1..Len(fields) :
          /\ fields[j].default # default_for(fields[j].field_type)
          /\ entries[2][fields[j].hash] = fields[j].default

(***************************************************************************)
(* Claims on the layout (LayoutSpec)                                       *)
(***************************************************************************)
\* the layout ranks and the byte widths of the types
LayoutRank(field_type) ==
    CASE field_type = "String"       -> 0
      [] field_type = "Float"        -> 1
      [] field_type = "Long"         -> 2
      [] field_type = "UnsignedLong" -> 3
      [] field_type = "Short"        -> 4
      [] field_type = "Char"         -> 5
      [] field_type = "StringOffset" -> 6

LayoutWidth(field_type) ==
    CASE field_type = "String"       -> 32
      [] field_type = "Float"        -> 4
      [] field_type = "Long"         -> 4
      [] field_type = "UnsignedLong" -> 4
      [] field_type = "Short"        -> 2
      [] field_type = "Char"         -> 1
      [] field_type = "StringOffset" -> 4

\* field k comes before field j in the stable sort on the rank
Precedes(fs, k, j) ==
    \/ LayoutRank(fs[k].field_type) < LayoutRank(fs[j].field_type)
    \/ LayoutRank(fs[k].field_type) = LayoutRank(fs[j].field_type) /\ k < j

\* the widths of the fields among 1..k that come before field j, summed
RECURSIVE WidthBefore(_, _, _)
WidthBefore(fs, j, k) ==
    IF k = 0 THEN 0
    ELSE (IF Precedes(fs, k, j) THEN LayoutWidth(fs[k].field_type) ELSE 0)
         + WidthBefore(fs, j, k - 1)

RECURSIVE TotalWidth(_, _)
TotalWidth(fs, k) ==
    IF k = 0 THEN 0 ELSE LayoutWidth(fs[k].field_type) + TotalWidth(fs, k - 1)

\* n rounded up to a multiple of 4
RoundUp4(n) == CHOOSE m \in n..(n + 3) : m % 4 = 0

\* C15: recalculate_offsets gives each field, as offset, the sum of the
\* widths (32, 4, 4, 4, 2, 1, 4) of the fields that come before it in the
\* stable sort on the rank (String 0, Float 1, Long 2, UnsignedLong 3,
\* Short 4, Char 5, StringOffset 6; fields of equal rank in directory
\* order), and the container, as row size, the total width rounded up to a
\* multiple of 4; the directory order, the types, masks and shifts and the
\* entries are as they were
C15_RecalculateOffsets ==
    [][(last'.op = "recalculate_offsets" /\ RecalculateOffsets)
          => /\ Len(fields') = Len(fields)
             /\ \A j \in 1..Len(fields) :
                   fields'[j] = [fields[j] EXCEPT
                                    !.offset = WidthBefore(fields, j, Len(fields))]
             /\ entry_size' = RoundUp4(TotalWidth(fields, Len(fields)))
             /\ UNCHANGED entries]_vars

\* offsets were recomputed for three fields that are not in layout order
\* in the directory, two of them of equal rank, with a total width that is
\* not a multiple of 4
C15_Witness ==
    /\ last.op = "recalculate_offsets"
    /\ Len(fields) = 3
    /\ \E j, k \in 1..3 : j < k /\ LayoutRank(fields[j].field_type)
                                    > LayoutRank(fields[k].field_type)
    /\ \E j, k \in 1..3 : j < k /\ fields[j].field_type = fields[k].field_type
                                /\ fields[j].offset < fields[k].offset
    /\ TotalWidth(fields, 3) % 4 # 0
    /\ entry_size = RoundUp4(TotalWidth(fields, 3))

(***************************************************************************)
(* Claims on buffers (FileSpec)                                            *)
(***************************************************************************)
\* header word at byte offset off, and directory record p (from 1), as
\* they stand in an encoded buffer
WrittenWord(b, off) == WordToNat(read_u32(b.bytes, off, b.opts.big_endian))

WrittenRecord(b, p) ==
    LET off == 16 + 12 * (p - 1)
    IN  [hash   |-> read_u32(b.bytes, off, b.opts.big_endian),
         mask   |-> read_u32(b.bytes, off + 4, b.opts.big_endian),
         offset |-> WordToNat(read_u16(b.bytes, off + 8, b.opts.big_endian)),
         shift  |-> b.bytes[off + 11],
         code   |-> b.bytes[off + 12]]

\* C16: to_buffer leaves the container as it was, and whatever offsets the
\* fields hold and whatever row size the container holds, the offset it
\* writes for each field and the row size it writes are the ones
\* recalculate_offsets computes for the directory
C16_EncodeRecomputesLayout ==
    [][(buffer.state = "none" /\ buffer'.state \in {"ok", "err", "panic"})
          => /\ UNCHANGED <<fields, entries, entry_size, lookup>>
             /\ buffer'.state = "ok"
                  => LET r == recalculate_offsets(fields)
                     IN  /\ WrittenWord(buffer', 12) = r.entry_size
                         /\ \A p \in 1..Len(fields) :
                               /\ contains_key(fields, WrittenRecord(buffer', p).hash)
                               /\ WrittenRecord(buffer', p).offset
                                    = GetField(r.fields, WrittenRecord(buffer', p).hash).offset
                         /\ \A j \in 1..Len(fields) : \E p \in 1..Len(fields) :
                               WrittenRecord(buffer', p).hash = fields[j].hash]_vars

\* a container decoded from a file, whose offsets and row size are not the
\* ones recalculate_offsets computes, was encoded with a row
C16_Witness ==
    /\ buffer.state = "ok"
    /\ last.op = "from_buffer"
    /\ Len(entries) >= 1
    /\ \E j \in 1..Len(fields) :
          /\ fields[j].offset # 0
          /\ fields[j].offset # recalculate_offsets(fields).fields[j].offset
    /\ entry_size # recalculate_offsets(fields).entry_size

\* fields created and never laid out, so that their offsets are all 0 and
\* the row size held is 0, were encoded with a row
C16_WitnessStale ==
    /\ buffer.state = "ok"
    /\ last = NoCall
    /\ Len(fields) = 2
    /\ Len(entries) >= 1
    /\ \A j \in 1..2 : fields[j].offset = 0
    /\ entry_size = 0

\* what from_buffer gives when it returns no container
NoContainer(r) == r.fields = <<>> /\ r.entries = <<>> /\ r.lookup = EmptyMap

\* C18: from_buffer on a buffer of fewer than 16 bytes, the empty buffer
\* included, returns BufferTooSmall with expected 16 and got the length of
\* the buffer, and no container
C18_ShortBuffer ==
    (buffer.state = "file" /\ Len(buffer.bytes) < 16)
      => /\ loaded.state = "err"
         /\ loaded.err = <<"BufferTooSmall", 16, Len(buffer.bytes)>>
         /\ NoContainer(loaded)

\* the empty buffer was decoded
C18_Witness ==
    /\ buffer.state = "file"
    /\ buffer.bytes = <<>>
    /\ loaded.state = "err"
    /\ loaded.err = <<"BufferTooSmall", 16, 0>>

\* a buffer of 15 bytes was decoded
C18_WitnessLongest ==
    /\ buffer.state = "file"
    /\ Len(buffer.bytes) = 15
    /\ loaded.err = <<"BufferTooSmall", 16, 15>>

\* the type code of directory record k (from 1) of a buffer
CodeOfRecord(data, k) == data[16 + 12 * k]

\* directory record k is the first with a type code outside 0..6, and it
\* and the records before it lie inside the buffer
FirstBadRecord(b, k) ==
    /\ Len(b.bytes) >= 16
    /\ k <= WrittenWord(b, 4)
    /\ 16 + 12 * k <= Len(b.bytes)
    /\ CodeOfRecord(b.bytes, k) \notin 0..6
    /\ \A j \in 1..(k - 1) : CodeOfRecord(b.bytes, j) \in 0..6

\* C19: the raw codes 0..6 and the seven field types map onto each other
\* one-to-one (from_raw(t as u8) = t for every type, and every code in
\* 0..6 is the code of the type it maps to); from_buffer on a buffer whose
\* directory has a record with a type code outside 0..6 returns
\* InvalidFieldType with that code and no container, whichever record it is
C19_TypeCodes ==
    /\ \A t \in FieldTypes :
          raw_type(t) \in 0..6 /\ from_raw(raw_type(t)) = [ok |-> TRUE, field_type |-> t]
    /\ \A code \in 0..6 :
          from_raw(code).ok /\ raw_type(from_raw(code).field_type) = code
    /\ Cardinality(FieldTypes) = 7
    /\ buffer.state = "file"
         => \A k \in 1..(Len(buffer.bytes) \div 12) :
               FirstBadRecord(buffer, k)
                 => /\ loaded.state = "err"
                    /\ loaded.err = <<"InvalidFieldType", CodeOfRecord(buffer.bytes, k)>>
                    /\ NoContainer(loaded)

\* a buffer whose third and last record has the type code 255 was decoded
C19_Witness ==
    /\ buffer.state = "file"
    /\ buffer.opts = SampleOpts
    /\ buffer.bytes = Corrupt(SamplePacked, 3, 255)
    /\ FirstBadRecord(buffer, 3)
    /\ loaded.err = <<"InvalidFieldType", 255>>

\* the variant of value is of the family of field_type
InFamily(field_type, value) ==
    \/ value.k = "Int" /\ field_type \in {"Long", "UnsignedLong", "Short", "Char"}
    \/ value.k = "Float" /\ field_type = "Float"
    \/ value.k = "String" /\ field_type \in {"String", "StringOffset"}

\* some entry holds, for a declared field, a value outside its family
HoldsMismatch ==
    \E i \in 1..Len(entries), j \in 1..Len(fields) :
        /\ fields[j].hash \in DOMAIN entries[i]
        /\ ~InFamily(fields[j].field_type, entries[i][fields[j].hash])

Encoded == buffer.state \in {"ok", "err", "panic"}

\* C20: to_buffer on a container in which some entry holds, for a declared
\* field, a value outside the family of the field's type returns
\* TypeMismatch and no buffer, whichever row and field the value is in
C20_MismatchIsReported ==
    (Encoded /\ HoldsMismatch)
      => /\ buffer.state = "err"
         /\ buffer.err = "TypeMismatch"
         /\ buffer.bytes = <<>>

\* the same, for containers none of whose fields has a shift of 32 or more
C20_MismatchIsReportedBelow32 ==
    (Encoded /\ HoldsMismatch /\ \A j \in 1..Len(fields) : fields[j].shift < 32)
      => /\ buffer.state = "err"
         /\ buffer.err = "TypeMismatch"
         /\ buffer.bytes = <<>>

\* to_buffer never returns a buffer for a container that holds a mismatch
C20_NoBufferOnMismatch ==
    (Encoded /\ HoldsMismatch) => (buffer.state # "ok" /\ buffer.bytes = <<>>)

\* a mismatch in the second row, under the second field, was reported
C20_Reported ==
    /\ buffer.state = "err"
    /\ buffer.err = "TypeMismatch"
    /\ Len(entries) = 2
    /\ Len(fields) = 2
    /\ \A j \in 1..2 : InFamily(fields[j].field_type, entries[1][fields[j].hash])
    /\ InFamily(fields[1].field_type, entries[2][fields[1].hash])
    /\ ~InFamily(fields[2].field_type, entries[2][fields[2].hash])

\* C21: from_buffer on a buffer of at least 16 bytes returns a container
\* or an error value; it never aborts, whatever the header, the directory
\* and the rows point to
C21_DecodeIsTotal ==
    (buffer.state = "file" /\ Len(buffer.bytes) >= 16)
      => loaded.state \in {"ok", "err"}

\* what decoding each hostile buffer under the options it was made for
\* ends in, in a build with overflow checks: a slice or an index out of
\* range everywhere, but for the shift (an overflowing shift) and the
\* header with 2^32 - 1 entries (memory runs out)
C21_Outcomes ==
    /\ \A data \in HostileBuffers \ {EndlessRows} :
          from_buffer(EmptyMap, data, SampleOpts, TRUE).state = "panic"
    /\ from_buffer(EmptyMap, EndlessRows, SampleOpts, TRUE).state = "abort"
    /\ from_buffer(EmptyMap, BadShift, SampleOpts, FALSE).state = "ok"
    /\ \A data \in HostileBuffers \ {EndlessRows, BadShift} :
          from_buffer(EmptyMap, data, SampleOpts, FALSE).state = "panic"

\* the replacement character U+FFFD
Replacement == 65533

\* some value of a decoded container is a text with U+FFFD in it
HoldsReplacement(r) ==
    \E i \in 1..Len(r.entries) : \E h \in DOMAIN r.entries[i] :
        /\ r.entries[i][h].k = "String"
        /\ \E c \in 1..Len(r.entries[i][h].v) : r.entries[i][h].v[c] = Replacement

\* C22: from_buffer on a buffer whose text is malformed for the configured
\* encoding returns EncodingError, under UTF-8 and under Shift-JIS, and
\* never a container with substituted text
C22_MalformedTextIsAnError ==
    (buffer.state = "file" /\ buffer.bytes \in MalformedTextBuffers
       /\ buffer.opts.big_endian)
      => /\ loaded.state = "err"
         /\ loaded.err = <<"EncodingError">>
         /\ ~HoldsReplacement(loaded)

\* the same under UTF-8 alone
C22_MalformedUtf8IsAnError ==
    (buffer.state = "file" /\ buffer.bytes \in MalformedTextBuffers
       /\ buffer.opts = [big_endian |-> TRUE, encoding |-> "Utf8"])
      => /\ loaded.state = "err"
         /\ loaded.err = <<"EncodingError">>

\* under Shift-JIS the malformed text is decoded to U+FFFD and returned
C22_Substituted ==
    /\ buffer.state = "file"
    /\ buffer.bytes = MalformedFF
    /\ buffer.opts = SampleOpts
    /\ loaded.state = "ok"
    /\ loaded.entries[1][calc(nC)] = StrValue(<<Replacement, 66>>)

IntegerTypes == {"Long", "UnsignedLong", "Short", "Char"}

\* the word at byte offset off of a buffer, as wide as the type: 4, 4, 2
\* or 1 bytes in the configured byte order, as a 32-bit word
RawWord(b, off, field_type) ==
    CASE field_type \in {"Long", "UnsignedLong"} -> read_u32(b.bytes, off, b.opts.big_endian)
      [] field_type = "Short" -> read_u16(b.bytes, off, b.opts.big_endian)
      [] field_type = "Char"  -> <<0, 0, 0, b.bytes[off + 1]>>

\* the integer a 32-bit word is when its low 32, 32, 16 or 8 bits are read
\* as a two's complement number of that width
SignedOfWidth(w, field_type) ==
    CASE field_type \in {"Long", "UnsignedLong"} ->
            IF w[1] >= 128
            THEN (((w[1] - 128) * 16777216 + w[2] * 65536 + w[3] * 256 + w[4])
                  - 2147483647) - 1
            ELSE w[1] * 16777216 + w[2] * 65536 + w[3] * 256 + w[4]
      [] field_type = "Short" ->
            IF w[3] >= 128 THEN (w[3] * 256 + w[4]) - 65536 ELSE w[3] * 256 + w[4]
      [] field_type = "Char" ->
            IF w[4] >= 128 THEN w[4] - 256 ELSE w[4]

\* row i (from 1) of a decoded buffer starts at this byte offset
RowStart(b, i) == WrittenWord(b, 8) + (i - 1) * WrittenWord(b, 12)

PoolStart(b) == WrittenWord(b, 8) + WrittenWord(b, 0) * WrittenWord(b, 12)

\* where the text of a StringOffset field of row i starts
TextStart(b, i, field) ==
    PoolStart(b) + WordToNat(read_u32(b.bytes, RowStart(b, i) + field.offset,
                                      b.opts.big_endian))

\* the offsets, from start on, at which a buffer holds a null byte
NulsFrom(b, start) == {n \in start..(Len(b.bytes) - 1) : b.bytes[n + 1] = 0}

FirstNul(b, start) ==
    CHOOSE n \in NulsFrom(b, start) : \A m \in NulsFrom(b, start) : n <= m

\* C25: the string pool starts at row-region offset + entry count * row
\* size, all taken from the header, and a StringOffset field decodes to the
\* text of the bytes from pool start + stored offset up to the first null
\* byte; a null byte at that very place gives the empty text
C25_IndirectText ==
    (buffer.state = "file" /\ loaded.state = "ok")
      => \A i \in 1..Len(loaded.entries), j \in 1..Len(loaded.fields) :
            LET field == loaded.fields[j]
                start == TextStart(buffer, i, field)
            IN  (field.field_type = "StringOffset" /\ NulsFrom(buffer, start) # {})
                  => loaded.entries[i][field.hash]
                       = StrValue(decode_string(
                             SubSeq(buffer.bytes, start + 1, FirstNul(buffer, start)),
                             buffer.opts.encoding).text)

\* the buffer with two rows of two texts was decoded: a pool that starts
\* after the second row, an offset to a null byte, and an offset into the
\* middle of a text
C25_Witness ==
    /\ buffer.state = "file"
    /\ buffer.bytes = SampleTexts
    /\ buffer.opts = SampleOpts
    /\ loaded.state = "ok"
    /\ PoolStart(buffer) = 56
    /\ loaded.entries[1][<<0, 0, 0, 67>>] = StrValue(<<65, 66>>)
    /\ loaded.entries[1][<<0, 0, 0, 5>>] = StrValue(<<67>>)
    /\ loaded.entries[2][<<0, 0, 0, 67>>] = StrValue(<<>>)
    /\ loaded.entries[2][<<0, 0, 0, 5>>] = StrValue(<<66>>)

\* a text that no null byte follows is decoded to the empty text
C25_UnterminatedIsEmpty ==
    (buffer.state = "file" /\ buffer.bytes = Unterminated /\ buffer.opts.big_endian)
      => /\ loaded.state = "ok"
         /\ loaded.entries[1][calc(nC)] = StrValue(<<>>)

(***************************************************************************)
(* Claims on packed fields (PackSpec)                                      *)
(***************************************************************************)
\* the bits of the storage word of a type
SlotBits(field_type) ==
    CASE field_type \in {"Long", "UnsignedLong"} -> 32
      [] field_type = "Short" -> 16
      [] field_type = "Char"  -> 8

\* v is one of the values field can hold: it is not negative and has no
\* bit outside the mask once shifted
Fits(field, v) == v >= 0 /\ v <= WordToNat(WShr(field.mask, field.shift))

\* C24: writing v to an integer field sets its storage word to
\* (existing & ~mask) | ((v << shift) & mask): a bit in the mask takes the
\* bit of v << shift, every other bit of the word, and every byte outside
\* the word, keeps the value it had; so fields that share a storage word
\* with disjoint masks each decode to the value written to them, in
\* whatever order they were written
C24_ReadModifyWrite ==
    [][\A j \in 1..Len(fields) :
          (last'.op = "write_field_value" /\ last'.index = j)
            => LET field == fields[j]
                   ft    == field.field_type
                   v     == entries'[1][field.hash].v
                   old   == RawWord(buffer, field.offset, ft)
                   new   == RawWord(buffer', field.offset, ft)
               IN  /\ \A b \in 0..(SlotBits(ft) - 1) :
                         WBit(new, b)
                           = IF WBit(field.mask, b) = 1
                             THEN (IF b >= field.shift
                                   THEN WBit(I32ToWord(v), b - field.shift) ELSE 0)
                             ELSE WBit(old, b)
                   /\ \A i \in 1..Len(buffer.bytes) :
                         (i <= field.offset \/ i > field.offset + SlotBits(ft) \div 8)
                           => buffer'.bytes[i] = buffer.bytes[i]
                   /\ \A k \in 1..Len(fields) :
                         (/\ fields[k].hash \in DOMAIN entries'[1]
                          /\ Fits(fields[k], entries'[1][fields[k].hash].v))
                           => read_field_value(buffer'.bytes, fields[k].offset, 0,
                                               fields[k], buffer'.opts, TRUE).value
                                = entries'[1][fields[k].hash]]_vars

\* two fields of one word were written, the second of the directory
\* first, with values that are not 0, and the bits of the third field are
\* those the row had before
C24_Witness ==
    /\ last.op = "write_field_value"
    /\ last.index = 1
    /\ Len(fields) = 3
    /\ buffer.opts.big_endian
    /\ DOMAIN entries[1] = {fields[1].hash, fields[2].hash}
    /\ entries[1][fields[1].hash] = IntValue(5)
    /\ entries[1][fields[2].hash] = IntValue(9)
    /\ buffer.bytes = <<165, 90, 60, 149>>

(***************************************************************************)
(* Claims on the codec (CodecSpec)                                         *)
(***************************************************************************)
\* hash, type, mask, shift and offset of a field
Core(f) == [hash |-> f.hash, field_type |-> f.field_type, mask |-> f.mask,
            shift |-> f.shift, offset |-> f.offset]

CoreSet(fs) == {Core(fs[i]) : i \in 1..Len(fs)}

\* v as the two's-complement number its low `bits` bits are
LowSigned(v, bits) ==
    LET m == v % Pow2(bits)
    IN  IF m >= Pow2(bits - 1) THEN m - Pow2(bits) ELSE m

\* the value a stored value is to come back as
Expected(field_type, value) ==
    IF field_type = "Short" THEN IntValue(LowSigned(value.v, 16))
    ELSE IF field_type = "Char" THEN IntValue(LowSigned(value.v, 8))
    ELSE value

\* what was decoded is what was encoded
RoundTripped ==
    /\ loaded.state = "ok"
    /\ CoreSet(loaded.fields) = CoreSet(recalculate_offsets(fields).fields)
    /\ Len(loaded.entries) = Len(entries)
    /\ \A i \in 1..Len(entries) :
          /\ DOMAIN loaded.entries[i] = Keys(fields)
          /\ \A j \in 1..Len(fields) :
                loaded.entries[i][fields[j].hash]
                    = Expected(fields[j].field_type, entries[i][fields[j].hash])

\* a text the format and the encoding can hold: no NUL in it, the encoding
\* gives bytes that decode to it, and no more than 32 of them as inline text
Storable(field_type, text, encoding) ==
    /\ \A k \in 1..Len(text) : text[k] # 0
    /\ decode_string(encode_string(text, encoding), encoding) = [ok |-> TRUE, text |-> text]
    /\ field_type = "String" => Len(encode_string(text, encoding)) <= 32

AllTextsStorable(encoding) ==
    \A i \in 1..Len(entries), j \in 1..Len(fields) :
        fields[j].field_type \in {"String", "StringOffset"}
            => Storable(fields[j].field_type, entries[i][fields[j].hash].v, encoding)

TextCells ==
    {c \in (1..Len(entries)) \X Keys(fields) :
        GetField(fields, c[2]).field_type = "StringOffset"}

CellText(c) == entries[c[1]][c[2]].v

\* the pool offset stored in the slot of a cell
CellSlot(c) ==
    WordToNat(read_u32(buffer.bytes,
                       buffer.off_data + (c[1] - 1) * buffer.entry_size
                           + GetField(recalculate_offsets(fields).fields, c[2]).offset,
                       buffer.opts.big_endian))

\* the bytes a text takes in the pool
PoolRun(text) == encode_string(text, buffer.opts.encoding) \o <<0>>

\* C6: in the bytes of one to_buffer call, the string pool is made of one
\* run per distinct StringOffset text written, the encoded text and one
\* null byte, each at the offset stored in the slots of the rows that hold
\* the text; equal texts have equal offsets and different texts different
\* offsets
C6_PoolHoldsEachTextOnce ==
    buffer.state = "ok" =>
        /\ \A c, d \in TextCells : CellText(c) = CellText(d) <=> CellSlot(c) = CellSlot(d)
        /\ \A c \in TextCells :
              /\ CellSlot(c) + Len(PoolRun(CellText(c))) <= Len(buffer.string_table)
              /\ SubSeq(buffer.string_table, CellSlot(c) + 1,
                        CellSlot(c) + Len(PoolRun(CellText(c)))) = PoolRun(CellText(c))
        /\ \A c, d \in TextCells :
              CellText(c) # CellText(d)
                  => \/ CellSlot(c) + Len(PoolRun(CellText(c))) <= CellSlot(d)
                     \/ CellSlot(d) + Len(PoolRun(CellText(d))) <= CellSlot(c)
        /\ \A k \in 1..Len(buffer.string_table) :
              \E c \in TextCells :
                  CellSlot(c) < k /\ k <= CellSlot(c) + Len(PoolRun(CellText(c)))
        /\ SubSeq(buffer.bytes, buffer.off_data + Len(entries) * buffer.entry_size + 1,
                  buffer.off_data + Len(entries) * buffer.entry_size
                      + Len(buffer.string_table)) = buffer.string_table

\* two rows hold the same text in one field, and a third cell holds another
C6_Witness ==
    /\ buffer.state = "ok"
    /\ \E c, d, e \in TextCells :
          /\ c[1] # d[1] /\ c[2] = d[2]
          /\ CellText(c) = CellText(d)
          /\ CellText(e) # CellText(c)

\* where the string pool of the encoded bytes ends
PoolEnd ==
    16 + 12 * Len(fields) + Len(entries) * buffer.entry_size + Len(buffer.string_table)

\* C7: the row size recalculate_offsets computes and the row size to_buffer
\* writes in the header are multiples of 4; the length of the bytes
\* to_buffer returns is a multiple of 32; every byte after the string pool
\* is 0x40; and nothing is added when the pool ends on a multiple of 32
C7_Alignment ==
    /\ recalculate_offsets(fields).entry_size % 4 = 0
    /\ buffer.state = "ok" =>
          /\ WordToNat(read_u32(buffer.bytes, 12, buffer.opts.big_endian)) % 4 = 0
          /\ WordToNat(read_u32(buffer.bytes, 12, buffer.opts.big_endian)) = buffer.entry_size
          /\ Len(buffer.bytes) % 32 = 0
          /\ Len(buffer.bytes) >= PoolEnd
          /\ \A k \in (PoolEnd + 1)..Len(buffer.bytes) : buffer.bytes[k] = 64
          /\ PoolEnd % 32 = 0 => Len(buffer.bytes) = PoolEnd

\* rows and a string pool that end on a multiple of 32
C7_Witness ==
    /\ buffer.state = "ok"
    /\ Len(entries) >= 1
    /\ buffer.string_table # <<>>
    /\ PoolEnd % 32 = 0

\* the place (from 1) of field j of the directory in the layout order
LayoutPlace(fs, j) == 1 + Cardinality({k \in 1..Len(fs) : Precedes(fs, k, j)})

\* C17: an encoded buffer starts with the header words entry count, field
\* count, 16 + 12 * field count and row size, followed by one 12-byte
\* record per field holding its hash, mask, computed offset, shift and type
\* code; the records stand in layout order, not in directory order, so the
\* offsets written never decrease
C17_HeaderAndDirectory ==
    buffer.state = "ok"
      => /\ WrittenWord(buffer, 0) = Len(entries)
         /\ WrittenWord(buffer, 4) = Len(fields)
         /\ WrittenWord(buffer, 8) = 16 + 12 * Len(fields)
         /\ WrittenWord(buffer, 12) = RoundUp4(TotalWidth(fields, Len(fields)))
         /\ Len(buffer.bytes) >= 16 + 12 * Len(fields)
         /\ \A j \in 1..Len(fields) :
               WrittenRecord(buffer, LayoutPlace(fields, j))
                 = [hash   |-> fields[j].hash,
                    mask   |-> fields[j].mask,
                    offset |-> WidthBefore(fields, j, Len(fields)),
                    shift  |-> fields[j].shift,
                    code   |-> raw_type(fields[j].field_type)]
         /\ \A p \in 1..(Len(fields) - 1) :
               WrittenRecord(buffer, p).offset <= WrittenRecord(buffer, p + 1).offset

\* two fields whose directory order is not their layout order were encoded
\* with a row, in little-endian byte order
C17_Witness ==
    /\ buffer.state = "ok"
    /\ ~buffer.opts.big_endian
    /\ Len(fields) = 2
    /\ Len(entries) >= 1
    /\ LayoutRank(fields[1].field_type) > LayoutRank(fields[2].field_type)
    /\ WrittenRecord(buffer, 1).hash = fields[2].hash
    /\ WrittenRecord(buffer, 2).offset > 0

\* the hashes an entry holds, in the order of the field directory
FieldOrder(entry) ==
    LET Held(h) == h \in DOMAIN entry
    IN  SelectSeq([j \in 1..Len(fields) |-> fields[j].hash], Held)

\* the bytes to_buffer gives when every row yields its values in the order
\* of the fields
BytesInFieldOrder ==
    to_buffer(fields, entries, [i \in 1..Len(entries) |-> FieldOrder(entries[i])],
              buffer.opts, TRUE).bytes

\* C26: to_buffer appends the texts to the string pool in row order and,
\* within a row, in field order, so that the bytes it returns for a
\* container and options are always the same
C26_PoolIsDeterministic ==
    buffer.state = "ok" => buffer.bytes = BytesInFieldOrder

\* the same for containers with at most one StringOffset text per row to
\* append, where the order within a row cannot show
C26_OneTextPerRow ==
    (buffer.state = "ok"
       /\ \A c, d \in TextCells : (c[1] = d[1] /\ c[2] # d[2]) => CellText(c) = CellText(d))
      => buffer.bytes = BytesInFieldOrder

\* a row with two texts was encoded with the text of the second field
\* first in the pool
C26_SecondFieldFirst ==
    /\ buffer.state = "ok"
    /\ Len(fields) = 2
    /\ Len(entries) = 1
    /\ \A j \in 1..2 : fields[j].field_type = "StringOffset"
    /\ entries[1][fields[1].hash] # entries[1][fields[2].hash]
    /\ CellSlot(<<1, fields[2].hash>>) = 0
    /\ CellSlot(<<1, fields[1].hash>>) > 0

\* the hashes an entry holds, in the order of the fields fs
OrderOf(fs, entry) ==
    LET Held(h) == h \in DOMAIN entry
    IN  SelectSeq([j \in 1..Len(fs) |-> fs[j].hash], Held)

\* what to_buffer gives for the decoded container under the options of the
\* buffer, its rows yielding their values in the orders iter_orders
Reencoded(iter_orders) ==
    to_buffer(loaded.fields, loaded.entries, iter_orders, buffer.opts, TRUE)

\* C28: for a buffer returned by to_buffer, to_buffer on the container
\* that from_buffer decodes from it, under the same options, returns the
\* same bytes
C28_ReencodeIsStable ==
    (buffer.state = "ok" /\ loaded.state = "ok")
      => \A iter_orders \in IterOrders(loaded.entries) :
            /\ Reencoded(iter_orders).state = "ok"
            /\ Reencoded(iter_orders).bytes = buffer.bytes

\* the same when both calls append the texts of a row in field order and
\* no text holds a null byte or is cut at 32 bytes inside a character
C28_StableInFieldOrder ==
    (/\ buffer.state = "ok" /\ loaded.state = "ok"
     /\ buffer.bytes = BytesInFieldOrder
     /\ \A i \in 1..Len(entries), j \in 1..Len(fields) :
           fields[j].field_type \in {"String", "StringOffset"}
             => /\ \A k \in 1..Len(entries[i][fields[j].hash].v) :
                      entries[i][fields[j].hash].v[k] # 0
                /\ (fields[j].field_type = "String"
                      => Len(encode_string(entries[i][fields[j].hash].v,
                                           buffer.opts.encoding)) <= 32))
      => LET again == Reencoded([i \in 1..Len(loaded.entries) |->
                                    OrderOf(loaded.fields, loaded.entries[i])])
         IN  again.state = "ok" /\ again.bytes = buffer.bytes

\* a text with a null byte in it was encoded and decoded, and encoding
\* the decoded container gives other bytes in whatever order
C28_NulTextShrinks ==
    /\ buffer.state = "ok"
    /\ loaded.state = "ok"
    /\ Len(fields) = 1
    /\ fields[1].field_type = "StringOffset"
    /\ Len(entries) = 1
    /\ entries[1][fields[1].hash] = StrValue(tNul)
    /\ \A iter_orders \in IterOrders(loaded.entries) :
          Reencoded(iter_orders).bytes # buffer.bytes

(***************************************************************************)
(* Claims on values under undeclared hashes (InertSpec)                    *)
(***************************************************************************)
\* an entry without the values it holds under hashes no field has
Declared(entry) == [h \in DOMAIN entry \cap Keys(fields) |-> entry[h]]

\* what to_buffer gives for the container without those values
WithoutStrays ==
    LET es == [i \in 1..Len(entries) |-> Declared(entries[i])]
    IN  to_buffer(fields, es, [i \in 1..Len(es) |-> FieldOrder(es[i])], buffer.opts, TRUE)

\* C27: a value an entry holds under a hash that no field has changes
\* nothing in the encoding: to_buffer succeeds and returns the bytes it
\* returns for the container without the value, whatever the variant, and
\* the container decoded from the bytes has no field and no value for the
\* hash
C27_StrayValuesAreInert ==
    /\ Encoded
         => /\ buffer.state = "ok"
            /\ WithoutStrays.state = "ok"
            /\ buffer.bytes = WithoutStrays.bytes
    /\ loaded.state # "none"
         => /\ loaded.state = "ok"
            /\ \A h \in (UNION {DOMAIN entries[i] : i \in 1..Len(entries)}) \ Keys(fields) :
                  /\ ~contains_key(loaded.fields, h)
                  /\ \A i \in 1..Len(loaded.entries) : h \notin DOMAIN loaded.entries[i]

\* two rows with a text and an integer under the undeclared hash, next to
\* an integer field and a StringOffset field, were encoded and decoded
C27_Witness ==
    /\ loaded.state = "ok"
    /\ Len(fields) = 2
    /\ \E j \in 1..2 : fields[j].field_type = "StringOffset"
    /\ Len(entries) = 2
    /\ StrayHash \in DOMAIN entries[1]
    /\ StrayHash \in DOMAIN entries[2]
    /\ entries[1][StrayHash] = StrValue(tAB)
    /\ entries[2][StrayHash] = IntValue(1)
    /\ Len(loaded.entries) = 2

(***************************************************************************)
(* Claims about the directory of a decoded buffer (FileSpec)               *)
(***************************************************************************)
\* the hashes of the directory records of the decoded bytes, in order
DirectoryHashes ==
    [k \in 1..WrittenWord(buffer, 4) |-> WrittenRecord(buffer, k).hash]

\* no two directory records carry the same hash
DistinctDirectory ==
    \A j, k \in DOMAIN DirectoryHashes :
        DirectoryHashes[j] = DirectoryHashes[k] => j = k

\* C30: after a from_buffer that succeeds, the container declares as many
\* fields as the header's field count, in directory order, and holds as
\* many entries as the header's entry count, also when two directory
\* records carry the same hash
C30_CountsMatchHeader ==
    (buffer.state = "file" /\ loaded.state = "ok")
      => /\ Len(loaded.fields) = WrittenWord(buffer, 4)
         /\ \A k \in 1..Len(loaded.fields) :
               loaded.fields[k].hash = DirectoryHashes[k]
         /\ Len(loaded.entries) = WrittenWord(buffer, 0)

\* the entry count always matches, and the fields match the directory when
\* its hashes are distinct; otherwise one field stands for every record of
\* a hash, at the place of the first and with the content of the last
C30_OneFieldPerHash ==
    (buffer.state = "file" /\ loaded.state = "ok")
      => /\ Len(loaded.entries) = WrittenWord(buffer, 0)
         /\ DistinctDirectory
               => /\ Len(loaded.fields) = WrittenWord(buffer, 4)
                  /\ \A k \in 1..Len(loaded.fields) :
                        loaded.fields[k].hash = DirectoryHashes[k]
         /\ Len(loaded.fields)
               = Cardinality({DirectoryHashes[k] : k \in DOMAIN DirectoryHashes})
         /\ \A j \in 1..Len(loaded.fields) :
               \E k \in DOMAIN DirectoryHashes :
                   /\ loaded.fields[j].hash = DirectoryHashes[k]
                   /\ loaded.fields[j].mask = WrittenRecord(buffer, k).mask
                   /\ loaded.fields[j].offset = WrittenRecord(buffer, k).offset
                   /\ \A m \in DOMAIN DirectoryHashes :
                         DirectoryHashes[m] = DirectoryHashes[k] => m <= k
                   /\ \A i \in 1..Len(loaded.fields) :
                         i < j => \E m \in 1..(k - 1) :
                                    /\ DirectoryHashes[m] = loaded.fields[i].hash
                                    /\ DirectoryHashes[m] # DirectoryHashes[k]

\* a buffer whose header counts three fields was decoded into a container
\* of two, the first and the third record carrying the same hash
C30_CollapsedDirectory ==
    /\ buffer.state = "file"
    /\ loaded.state = "ok"
    /\ WrittenWord(buffer, 4) = 3
    /\ DirectoryHashes[1] = DirectoryHashes[3]
    /\ Len(loaded.fields) = 2

(***************************************************************************)
(* Claims about rows that lack a declared field (SparseSpec)               *)
(***************************************************************************)
\* the rows and declared fields with no value: row i has none for field j
MissingCells ==
    {c \in (1..Len(entries)) \X (1..Len(fields)) :
        fields[c[2]].hash \notin DOMAIN entries[c[1]]}

\* C29: when an entry holds no value for a declared field, to_buffer
\* succeeds, and a from_buffer of the result that succeeds gives that entry
\* the default of the field's type for the field (integer 0, float 0.0,
\* empty text), whatever the field's type and whatever the string pool holds
C29_MissingValueIsDefault ==
    /\ (Encoded /\ MissingCells # {}) => buffer.state = "ok"
    /\ (loaded.state = "ok" /\ MissingCells # {})
         => /\ Len(loaded.entries) = Len(entries)
            /\ \A c \in MissingCells :
                  /\ fields[c[2]].hash \in DOMAIN loaded.entries[c[1]]
                  /\ loaded.entries[c[1]][fields[c[2]].hash]
                        = default_for(fields[c[2]].field_type)

\* the same for every field type but StringOffset, and for StringOffset
\* when no row puts a text into the string pool
C29_DefaultOutsideThePool ==
    (loaded.state = "ok" /\ MissingCells # {})
      => /\ Len(loaded.entries) = Len(entries)
         /\ \A c \in MissingCells :
               (fields[c[2]].field_type # "StringOffset" \/ buffer.string_table = <<>>)
                 => /\ fields[c[2]].hash \in DOMAIN loaded.entries[c[1]]
                    /\ loaded.entries[c[1]][fields[c[2]].hash]
                          = default_for(fields[c[2]].field_type)

\* a row without a value for a StringOffset field is decoded with the
\* first text of the string pool, which another row put there
C29_TakesPoolText ==
    /\ loaded.state = "ok"
    /\ \E c \in MissingCells :
          /\ fields[c[2]].field_type = "StringOffset"
          /\ loaded.entries[c[1]][fields[c[2]].hash] = StrValue(tKana)
          /\ \E i \in 1..Len(entries) :
                /\ i # c[1]
                /\ fields[c[2]].hash \in DOMAIN entries[i]
                /\ entries[i][fields[c[2]].hash] = StrValue(tKana)

====
